---- MODULE Spec2Model ----
(***************************************************************************)
(* DCTDM steganography over baseline JPEG (src/DCTDM.py,                   *)
(* src/jpeg_encoder.py).                                                   *)
(*                                                                         *)
(* Python lists are modelled as functions over 0..n-1 where the source     *)
(* indexes them (blocks, quantization tables) and as sequences where the   *)
(* source only appends to and slices them (bit buffers, byte strings,      *)
(* texts).  Characters are their code points.                              *)
(***************************************************************************)
EXTENDS Integers, Sequences, FiniteSets, TLC

----------------------------------------------------------------------------
(* Arithmetic of the Python built-ins the source uses *)

Abs(x) == IF x < 0 THEN -x ELSE x

Min(a, b) == IF a <= b THEN a ELSE b

RECURSIVE Pow2(_)
Pow2(n) == IF n <= 0 THEN 1 ELSE 2 * Pow2(n - 1)

\* int.bit_length()
RECURSIVE BitLength(_)
BitLength(n) == IF n <= 0 THEN 0 ELSE 1 + BitLength(n \div 2)

\* round(num / den) for den > 0: Python 3 rounds exact halves to the even
\* neighbour.
PyRound(num, den) ==
    LET q == num \div den
        r == num - q * den
    IN  IF 2 * r < den THEN q
        ELSE IF 2 * r > den THEN q + 1
        ELSE IF q % 2 = 0 THEN q ELSE q + 1

\* the n low bits of value, most significant first (JPEGEncoder._write_bits)
RECURSIVE WriteBits(_, _)
WriteBits(value, num_bits) ==
    IF num_bits <= 0 THEN <<>>
    ELSE <<(value \div Pow2(num_bits - 1)) % 2>> \o WriteBits(value, num_bits - 1)

\* format(n, '0{width}b'): the binary digits of n >= 0, zero-padded to at
\* least width digits and never cut
Format0b(n, width) ==
    LET w == IF BitLength(n) > width THEN BitLength(n) ELSE width
    IN  WriteBits(n, w)

\* int(''.join(bits), 2)
RECURSIVE BitsToInt(_)
BitsToInt(bits) ==
    IF Len(bits) = 0 THEN 0
    ELSE 2 * BitsToInt(SubSeq(bits, 1, Len(bits) - 1)) + bits[Len(bits)]

RECURSIVE Concat(_)
Concat(ss) ==
    IF Len(ss) = 0 THEN <<>>
    ELSE IF Len(ss) = 1 THEN ss[1]
    ELSE Concat(SubSeq(ss, 1, Len(ss) \div 2)) \o Concat(SubSeq(ss, (Len(ss) \div 2) + 1, Len(ss)))

\* sorted(xs) for a list of integers
Sorted(xs) == SortSeq(xs, LAMBDA a, b : a < b)

----------------------------------------------------------------------------
(* HuffmanTable (src/DCTDM.py): the decode tree is a nested Python list; a *)
(* list node has 0, 1 or 2 children, a leaf is the symbol (an int).        *)

ListNode(kids) == [leaf |-> FALSE, sym |-> 0, kids |-> kids]

LeafNode(s) == [leaf |-> TRUE, sym |-> s, kids |-> <<>>]

\* HuffmanTable.__init__: self.root = []
EmptyRoot == ListNode(<<>>)

\* HuffmanTable.bits_from_lengths(root, element, pos): inserts element at
\* depth pos + 1, leftmost free slot; the list is changed in place, so the
\* result carries the changed node next to the returned bool.
RECURSIVE bits_from_lengths(_, _, _)
bits_from_lengths(root, element, pos) ==
    IF root.leaf THEN [ok |-> FALSE, node |-> root]
    ELSE IF pos = 0 THEN
        IF Len(root.kids) < 2
        THEN [ok |-> TRUE, node |-> ListNode(Append(root.kids, LeafNode(element)))]
        ELSE [ok |-> FALSE, node |-> root]
    ELSE
        LET k0 == IF Len(root.kids) = 0 THEN <<EmptyRoot>> ELSE root.kids
            r0 == bits_from_lengths(k0[1], element, pos - 1)
            k0b == [k0 EXCEPT ![1] = r0.node]
        IN  IF r0.ok THEN [ok |-> TRUE, node |-> ListNode(k0b)]
            ELSE
                LET k1 == IF Len(k0b) = 1 THEN Append(k0b, EmptyRoot) ELSE k0b
                    r1 == bits_from_lengths(k1[2], element, pos - 1)
                IN  [ok |-> r1.ok, node |-> ListNode([k1 EXCEPT ![2] = r1.node])]

\* the depth (0-based index into lengths) of each element, in element order:
\* the nested loops of get_huffman_bits flattened
RECURSIVE DepthList(_, _)
DepthList(lengths, i) ==
    IF i > Len(lengths) THEN <<>>
    ELSE [n \in 1..lengths[i] |-> i - 1] \o DepthList(lengths, i + 1)

\* the insertions of get_huffman_bits for elements pos..Len(depths), in
\* order: the first half of them, then the second half on the tree the
\* first half leaves (the bool that bits_from_lengths returns is not used)
RECURSIVE InsertAll(_, _, _, _)
InsertAll(root, depths, elements, pos) ==
    IF pos > Len(depths) THEN root
    ELSE IF pos = Len(depths) THEN bits_from_lengths(root, elements[pos], depths[pos]).node
    ELSE LET mid == (pos + Len(depths)) \div 2
             first == InsertAll(root, SubSeq(depths, 1, mid), elements, pos)
         IN  IF first.leaf THEN first
             ELSE InsertAll(first, depths, elements, mid + 1)

\* HuffmanTable.get_huffman_bits(lengths, elements), from an empty root;
\* elements[pos] past the end of elements is an IndexError
get_huffman_bits(lengths, elements) ==
    LET depths == DepthList(lengths, 1)
    IN  IF Len(depths) > Len(elements) THEN [ok |-> FALSE, root |-> EmptyRoot]
        ELSE [ok |-> TRUE, root |-> InsertAll(EmptyRoot, depths, elements, 1)]

\* the leaves of a tree in depth-first, left-to-right order, each with the
\* path that leads to it: the traversal shared by
\* JPEGEncoder._build_huffman_code_table.traverse and
\* JPEGEncoder._extract_huffman_data.collect_symbols
RECURSIVE Leaves(_, _, _)
Leaves(node, code, length) ==
    IF node.leaf THEN <<[sym |-> node.sym, code |-> code, len |-> length]>>
    ELSE (IF Len(node.kids) > 0 THEN Leaves(node.kids[1], 2 * code, length + 1) ELSE <<>>)
         \o
         (IF Len(node.kids) > 1 THEN Leaves(node.kids[2], 2 * code + 1, length + 1) ELSE <<>>)

\* JPEGEncoder._build_huffman_code_table: symbol -> (code, length); a symbol
\* met twice keeps the last leaf visited
build_huffman_code_table(root) ==
    LET ls == Leaves(root, 0, 0)
        syms == {ls[i].sym : i \in 1..Len(ls)}
        last(s) == CHOOSE i \in 1..Len(ls) :
                      /\ ls[i].sym = s
                      /\ \A j \in 1..Len(ls) : ls[j].sym = s => j <= i
    IN  [s \in syms |-> <<ls[last(s)].code, ls[last(s)].len>>]

SymbolsAtLength(ls, n) ==
    LET at == SelectSeq(ls, LAMBDA l : l.len = n)
    IN  [i \in 1..Len(at) |-> at[i].sym]

\* the order in which _extract_huffman_data lists the symbols of one length
SymbolOrder(syms) == Sorted(syms)

\* JPEGEncoder._extract_huffman_data: (lengths, symbols) for the DHT segment
extract_huffman_data(root) ==
    LET ls == Leaves(root, 0, 0)
    IN  [lengths |-> [i \in 1..16 |-> Len(SymbolsAtLength(ls, i))],
         symbols |-> Concat([i \in 1..16 |-> SymbolOrder(SymbolsAtLength(ls, i))])]

----------------------------------------------------------------------------
(* Bit writer and bit reader *)

\* a full byte of _bits_to_bytes: the byte, and 0x00 after it when it is 0xFF
StuffByte(byte_val) == IF byte_val = 255 THEN <<byte_val, 0>> ELSE <<byte_val>>

\* a final partial byte that is padded but not stuffed
FlushByteUnstuffed(byte_val, bit_count) ==
    <<byte_val * Pow2(8 - bit_count) + (Pow2(8 - bit_count) - 1)>>

\* the final partial byte of _bits_to_bytes: the bit_count pending bits
\* shifted up and padded with 1s, then stuffed like any other byte
FlushByte(byte_val, bit_count) ==
    LET b == byte_val * Pow2(8 - bit_count) + (Pow2(8 - bit_count) - 1)
    IN  IF b = 255 THEN <<b, 0>> ELSE <<b>>

\* the loop of _bits_to_bytes from bit i on, i at a byte boundary: one
\* stuffed byte per 8 bits, most significant bit first, then the flush of
\* the bits that are left
BitsLoop(bit_buffer, i) ==
    LET full == (Len(bit_buffer) - i + 1) \div 8
        bit_count == (Len(bit_buffer) - i + 1) % 8
    IN  Concat([k \in 1..full |->
                  StuffByte(BitsToInt(SubSeq(bit_buffer, i + 8 * (k - 1), i + 8 * k - 1)))])
        \o (IF bit_count > 0
            THEN FlushByte(BitsToInt(SubSeq(bit_buffer, i + 8 * full, Len(bit_buffer))), bit_count)
            ELSE <<>>)

\* JPEGEncoder._bits_to_bytes
bits_to_bytes(bit_buffer) == BitsLoop(bit_buffer, 1)

\* remove_FF00(data): (datapro, i); unpack('BB', data[i:i+2]) fails with
\* struct.error when fewer than two bytes are left.  From position i the
\* loop visits every byte but the 0x00 that follows a 0xFF, and leaves at
\* the first 0xFF that is followed by another byte; reaching the end of data
\* before that is the error.
\* lines 163-172: one iteration of the while loop of remove_FF00 from the
\* state s = [ok, done, datapro, i]; unpack('BB', ...) of fewer than two
\* bytes is a struct.error
RemoveStep(data, s) ==
    IF Len(data) - s.i < 2 THEN [s EXCEPT !.ok = FALSE, !.done = TRUE]
    ELSE IF data[s.i + 1] = 255
    THEN IF data[s.i + 2] # 0 THEN [s EXCEPT !.done = TRUE]
         ELSE [s EXCEPT !.datapro = Append(@, data[s.i + 1]), !.i = @ + 2]
    ELSE [s EXCEPT !.datapro = Append(@, data[s.i + 1]), !.i = @ + 1]

remove_FF00_from(data, i) ==
    LET marks == {j \in (i + 1)..(Len(data) - 1) : data[j] = 255 /\ data[j + 1] # 0}
        stuffed(j) == j > i + 1 /\ data[j] = 0 /\ data[j - 1] = 255
        end == IF marks # {} THEN (CHOOSE j \in marks : \A m \in marks : j <= m) - 1
               ELSE IF Len(data) <= i THEN i
               ELSE IF Len(data) > i + 1 /\ data[Len(data) - 1] = 255 /\ data[Len(data)] = 0
               THEN Len(data)
               ELSE Len(data) - 1
        kept == SelectSeq([j \in 1..(end - i) |-> i + j], LAMBDA j : ~stuffed(j))
    IN  [ok |-> marks # {}, datapro |-> [n \in 1..Len(kept) |-> data[kept[n]]], i |-> end]

remove_FF00(data) == remove_FF00_from(data, 0)

\* Stream.GetBit at bit position pos (the caller advances pos); reading past
\* the end of data is an IndexError, reported as -1
GetBit(data, pos) ==
    IF pos \div 8 >= Len(data) THEN -1
    ELSE (data[(pos \div 8) + 1] \div Pow2(7 - (pos % 8))) % 2

\* Stream.GetBitN(nrBits) from position pos: [ok, value, pos]
RECURSIVE GetBitN(_, _, _, _)
GetBitN(data, pos, nrBits, value) ==
    IF nrBits <= 0 THEN [ok |-> TRUE, value |-> value, pos |-> pos]
    ELSE LET b == GetBit(data, pos)
         IN  IF b < 0 THEN [ok |-> FALSE, value |-> value, pos |-> pos]
             ELSE GetBitN(data, pos + 1, nrBits - 1, 2 * value + b)

\* HuffmanTable.find (and get_code, whose loop returns the first result):
\* descend from node r by the bits read; r[bit] on a list without that child
\* is an IndexError
RECURSIVE find(_, _, _)
find(r, data, pos) ==
    IF r.leaf THEN [ok |-> TRUE, value |-> r.sym, pos |-> pos]
    ELSE LET b == GetBit(data, pos)
         IN  IF b < 0 \/ b + 1 > Len(r.kids)
             THEN [ok |-> FALSE, value |-> 0, pos |-> pos]
             ELSE find(r.kids[b + 1], data, pos + 1)

\* lines 703-708: one iteration of the while loop of get_code from the state
\* s = [ok, done, pos, res], with c what find returned
GetCodeStep(s, c) ==
    IF ~c.ok THEN [s EXCEPT !.ok = FALSE, !.done = TRUE]
    ELSE IF c.value = 0 THEN [s EXCEPT !.done = TRUE, !.pos = c.pos, !.res = 0]
    ELSE IF c.value # -1 THEN [s EXCEPT !.done = TRUE, !.pos = c.pos, !.res = c.value]
    ELSE [s EXCEPT !.pos = c.pos]

\* decode_number(code, bits); for code = 0 the threshold 2 ** -1 is 0.5 and
\* the result is bits either way
decode_number(code, bits) ==
    IF code = 0 THEN bits
    ELSE IF bits >= Pow2(code - 1) THEN bits
    ELSE bits - (2 * Pow2(code - 1) - 1)

\* an encoding of negative values in two's complement: 2^size + value
encode_number_twos_complement(value) ==
    IF value = 0 THEN <<0, 0>>
    ELSE LET size == BitLength(Abs(value))
         IN  IF value > 0 THEN <<size, value>>
             ELSE <<size, Pow2(size) + value>>

\* JPEGEncoder._encode_number(value): <<size, bits>>
encode_number(value) ==
    IF value = 0 THEN <<0, 0>>
    ELSE LET size == BitLength(Abs(value))
         IN  IF value > 0 THEN <<size, value>>
             ELSE <<size, Pow2(size) - 1 + value>>

----------------------------------------------------------------------------
(* Zigzag and the 8x8 block *)

\* IDCT.zigzag (src/DCTDM.py lines 282-291), row-major: index row * 8 + col
zigzag ==
    [i \in 0..63 |->
       << 0,  1,  5,  6, 14, 15, 27, 28,
          2,  4,  7, 13, 16, 26, 29, 42,
          3,  8, 12, 17, 25, 30, 41, 43,
          9, 11, 18, 24, 31, 40, 44, 53,
         10, 19, 23, 32, 39, 45, 52, 54,
         20, 22, 33, 38, 46, 51, 55, 60,
         21, 34, 37, 47, 50, 56, 59, 61,
         35, 36, 48, 49, 57, 58, 62, 63 >>[i + 1]]

\* a zigzag_order whose entries 1 and 8 (natural cells (0,1) and (1,0)) trade places
zigzag_order_swapped ==
    [i \in 0..63 |->
       << 0,  2,  5,  6, 14, 15, 27, 28,
          1,  4,  7, 13, 16, 26, 29, 42,
          3,  8, 12, 17, 25, 30, 41, 43,
          9, 11, 18, 24, 31, 40, 44, 53,
         10, 19, 23, 32, 39, 45, 52, 54,
         20, 22, 33, 38, 46, 51, 55, 60,
         21, 34, 37, 47, 50, 56, 59, 61,
         35, 36, 48, 49, 57, 58, 62, 63 >>[i + 1]]

\* zigzag_order of JPEGEncoder._zigzag_to_linear (lines 170-179), index row * 8 + col
zigzag_order ==
    [i \in 0..63 |->
       << 0,  1,  5,  6, 14, 15, 27, 28,
          2,  4,  7, 13, 16, 26, 29, 42,
          3,  8, 12, 17, 25, 30, 41, 43,
          9, 11, 18, 24, 31, 40, 44, 53,
         10, 19, 23, 32, 39, 45, 52, 54,
         20, 22, 33, 38, 46, 51, 55, 60,
         21, 34, 37, 47, 50, 56, 59, 61,
         35, 36, 48, 49, 57, 58, 62, 63 >>[i + 1]]

\* IDCT.rearrange_using_zigzag: the 8x8 matrix [x][y] = base[zigzag[x][y]]
rearrange_using_zigzag(base) ==
    [x \in 0..7 |-> [y \in 0..7 |-> base[zigzag[x * 8 + y]]]]

\* JPEGEncoder._zigzag_to_linear: linear[zigzag_order[row*8+col]] = block[row][col]
\* (linear starts as [0] * 64; a later idx overwrites an earlier one)
zigzag_to_linear(zigzag_block) ==
    [n \in 0..63 |->
        LET ks == {k \in 0..63 : zigzag_order[k] = n}
        IN  IF ks = {} THEN 0
            ELSE LET idx == CHOOSE k \in ks : \A j \in ks : j <= k
                 IN  zigzag_block[idx \div 8][idx % 8]]

ZeroBase == [n \in 0..63 |-> 0]

----------------------------------------------------------------------------
(* Scan decoder: JPEG.build_matrix *)

DecodeFail == [ok |-> FALSE, pos |-> 0, DCcoeff |-> 0, dct_block |-> <<>>]

\* the while loop of build_matrix over the AC coefficients.  Its state s is
\* [ok, done, pos, length, base]; ACSymbol is one iteration after the
\* run/size symbol c is read, ACValue after the bits b of its value.
ACValue(s, quant, length, code, b) ==
    IF ~b.ok THEN [s EXCEPT !.ok = FALSE, !.done = TRUE]
    ELSE IF length < 64
    THEN [s EXCEPT !.pos = b.pos, !.length = length + 1,
                   !.base = [@ EXCEPT ![length] = decode_number(code, b.value) * quant[length]]]
    ELSE [s EXCEPT !.pos = b.pos, !.length = length]

ACSymbol(s, data, quant, c) ==
    IF ~c.ok THEN [s EXCEPT !.ok = FALSE, !.done = TRUE]
    ELSE IF c.value = 0 THEN [s EXCEPT !.pos = c.pos, !.done = TRUE]
    ELSE IF c.value > 15
    THEN ACValue(s, quant, s.length + (c.value \div 16), c.value % 16,
                 GetBitN(data, c.pos, c.value % 16, 0))
    ELSE ACValue(s, quant, s.length, c.value, GetBitN(data, c.pos, c.value, 0))

\* lines 778-795: the loop test and one iteration of the AC loop
ACStep(acroot, data, quant, s) ==
    IF ~(s.length < 64) THEN [s EXCEPT !.done = TRUE]
    ELSE ACSymbol(s, data, quant, find(acroot, data, s.pos))

\* at most k iterations from state s: the first half of them, then the rest
\* from the state the first half leaves.  Every iteration that does not
\* leave the loop adds at least 1 to length, so 64 iterations are enough.
RECURSIVE ACLoop(_, _, _, _, _)
ACLoop(acroot, data, quant, s, k) ==
    IF s.done THEN s
    ELSE IF k <= 1 THEN ACStep(acroot, data, quant, s)
    ELSE LET first == ACLoop(acroot, data, quant, s, k \div 2)
         IN  IF first.done THEN first
             ELSE ACLoop(acroot, data, quant, first, k - (k \div 2))

\* build_matrix after the AC loop: the block of the coefficients read
BlockOf(DCcoeff, ac) ==
    IF ~ac.ok THEN DecodeFail
    ELSE [ok |-> TRUE, pos |-> ac.pos, DCcoeff |-> DCcoeff,
          dct_block |-> rearrange_using_zigzag(ac.base)]

\* build_matrix after the DC bits b: DCcoeff, then the AC loop
BlockAC(acroot, data, quant, DCcoeff, b) ==
    BlockOf(DCcoeff,
            ACLoop(acroot, data, quant,
                   [ok |-> TRUE, done |-> FALSE, pos |-> b.pos, length |-> 1,
                    base |-> [ZeroBase EXCEPT ![0] = DCcoeff * quant[0]]], 64))

\* build_matrix after the DC size code c
BlockDC(acroot, data, quant, oldDCcoeff, code, b) ==
    IF ~b.ok THEN DecodeFail
    ELSE BlockAC(acroot, data, quant, decode_number(code, b.value) + oldDCcoeff, b)

BlockCode(acroot, data, quant, oldDCcoeff, c) ==
    IF ~c.ok THEN DecodeFail
    ELSE BlockDC(acroot, data, quant, oldDCcoeff, c.value, GetBitN(data, c.pos, c.value, 0))

\* JPEG.build_matrix(st, idx, quant, oldDCcoeff) with the stream at bit pos:
\* [ok, pos, DCcoeff, dct_block]; a missing table is a KeyError
build_matrix(huffman_tables, data, pos, idx, quant, oldDCcoeff) ==
    IF idx \notin DOMAIN huffman_tables \/ (16 + idx) \notin DOMAIN huffman_tables
    THEN DecodeFail
    ELSE BlockCode(huffman_tables[16 + idx], data, quant, oldDCcoeff,
                   find(huffman_tables[idx], data, pos))

----------------------------------------------------------------------------
(* Scan encoder: JPEGEncoder._encode_block *)

\* the code of a symbol that the table holds, as bits
CodeBits(code_table, symbol) == WriteBits(code_table[symbol][1], code_table[symbol][2])

\* the symbol's code when the table holds the symbol, else what the source
\* writes then
WriteSymbol(code_table, symbol) ==
    IF symbol \in DOMAIN code_table THEN CodeBits(code_table, symbol) ELSE <<>>

\* lines 207-218: the DC size code and the DC bits; when the table lacks the
\* size the code for size 0 is written, if there is one
EncodeDC(dc_code_table, dc_diff) ==
    LET e == encode_number(dc_diff)
    IN  IF e[1] \in DOMAIN dc_code_table
        THEN CodeBits(dc_code_table, e[1]) \o (IF e[1] > 0 THEN WriteBits(e[2], e[1]) ELSE <<>>)
        ELSE WriteSymbol(dc_code_table, 0)

\* a single ZRL for any run of 16 zeros or more
EncodeZRLOnce(ac_code_table, zero_run) ==
    IF zero_run >= 16 /\ 240 \in DOMAIN ac_code_table
    THEN WriteBits(ac_code_table[240][1], ac_code_table[240][2])
    ELSE <<>>

\* lines 240-244: one ZRL per 16 zeros of the run
RECURSIVE EncodeZRL(_, _)
EncodeZRL(ac_code_table, zero_run) ==
    IF zero_run >= 16
    THEN WriteSymbol(ac_code_table, 240) \o EncodeZRL(ac_code_table, zero_run - 16)
    ELSE <<>>

\* lines 246-258: run/size symbol and value bits of one non-zero coefficient;
\* nothing is written when the table lacks the symbol
EncodeAC(ac_code_table, zero_run, ac_val) ==
    LET e == encode_number(ac_val)
        rs_symbol == (zero_run % 16) * 16 + e[1]
    IN  IF rs_symbol \in DOMAIN ac_code_table
        THEN CodeBits(ac_code_table, rs_symbol) \o (IF e[1] > 0 THEN WriteBits(e[2], e[1]) ELSE <<>>)
        ELSE <<>>

\* the while loop of lines 228-260 from position i with zero_run zeros
\* pending: for each non-zero position n up to last_nonzero, in order, the
\* ZRLs and the run/size code of the zeros counted since the non-zero
\* position before it (lines 231-233)
EncodeACLoop(ac_code_table, quantized, last_nonzero, i, zero_run) ==
    Concat([k \in 1..(last_nonzero - i + 1) |->
              LET n == i + k - 1
                  before == {j \in i..(n - 1) : quantized[j] # 0}
                  run == IF before = {} THEN zero_run + (n - i)
                         ELSE n - 1 - (CHOOSE j \in before : \A m \in before : m <= j)
              IN  IF quantized[n] = 0 THEN <<>>
                  ELSE EncodeZRL(ac_code_table, run) \o EncodeAC(ac_code_table, run, quantized[n])])

\* lines 224-226
LastNonzero(quantized) ==
    LET nz == {i \in 1..63 : quantized[i] # 0}
    IN  IF nz = {} THEN 0 ELSE CHOOSE i \in nz : \A j \in nz : j <= i

\* lines 196-200
Quantize(linear_dct, quant_table) ==
    [i \in 0..63 |-> PyRound(linear_dct[i], quant_table[i])]

\* JPEGEncoder._encode_block: [bits, dc]
encode_block(code_tables, dct_block, quant_table, dc_table_id, ac_table_id, prev_dc) ==
    LET quantized == Quantize(zigzag_to_linear(dct_block), quant_table)
        last_nonzero == LastNonzero(quantized)
        ac_code_table == code_tables[ac_table_id]
    IN  [bits |-> EncodeDC(code_tables[dc_table_id], quantized[0] - prev_dc)
                  \o EncodeACLoop(ac_code_table, quantized, last_nonzero, 1, 0)
                  \o (IF last_nonzero < 63 THEN WriteSymbol(ac_code_table, 0) ELSE <<>>),
         dc |-> quantized[0]]

----------------------------------------------------------------------------
(* Marker parser: class JPEG (src/DCTDM.py).  A file is its byte sequence. *)

\* data[a:b] of Python (0-based, clamped) on a sequence
Slice(data, a, b) == SubSeq(data, a + 1, Min(b, Len(data)))

\* struct.pack('>H', n) and its inverse on two bytes at 0-based offset off
Pack16(n) == <<n \div 256, n % 256>>

Unpack16(data, off) == data[off + 1] * 256 + data[off + 2]

\* list -> function over 0..n-1 (a Python list indexed by the source)
AsList(seq) == [i \in 0..(Len(seq) - 1) |-> seq[i + 1]]

AsSeq(list, n) == [i \in 1..n |-> list[i - 1]]

\* JPEG.__init__; height and width are set by BaselineDCT only
NewJPEG ==
    [ok |-> TRUE, huffman_tables |-> <<>>, quant |-> <<>>, quant_mapping |-> <<>>,
     dct_blocks |-> <<>>, height |-> -1, width |-> -1]

Raise(jpeg) == [jpeg EXCEPT !.ok = FALSE]

RECURSIVE SumSeq(_)
SumSeq(xs) == IF Len(xs) = 0 THEN 0 ELSE Head(xs) + SumSeq(Tail(xs))

\* JPEG.decode_huffman(data): one table is read from the segment
decode_huffman(jpeg, data) ==
    IF Len(data) < 17 THEN Raise(jpeg)
    ELSE
      LET header == data[1]
          lengths == Slice(data, 1, 17)
          elements == Slice(data, 17, 17 + SumSeq(lengths))
          hf == get_huffman_bits(lengths, elements)
      IN  IF Len(elements) < SumSeq(lengths) \/ ~hf.ok THEN Raise(jpeg)
          ELSE [jpeg EXCEPT !.huffman_tables = (header :> hf.root) @@ @]

\* JPEG.define_quantization_tables(data): one table is read from the segment
define_quantization_tables(jpeg, data) ==
    IF Len(data) < 65 THEN Raise(jpeg)
    ELSE [jpeg EXCEPT !.quant = (data[1] :> AsList(Slice(data, 1, 65))) @@ @]

\* JPEG.BaselineDCT(data)
BaselineDCT(jpeg, data) ==
    IF Len(data) < 6 \/ Len(data) < 6 + 3 * data[6] THEN Raise(jpeg)
    ELSE [jpeg EXCEPT !.height = Unpack16(data, 1),
                      !.width = Unpack16(data, 3),
                      !.quant_mapping = @ \o [i \in 1..data[6] |-> data[6 + 3 * i]]]

\* the build_matrix calls of start_of_scan.  The state s of the loops is
\* [jpeg, pos, n, comp, old, cur, done]: MCU number n, component comp (0 Y,
\* 1 Cb, 2 Cr), old the three DC predictors, cur the blocks of this MCU
\* read so far; m is the block just read.
ScanBlock(s, m) ==
    IF ~m.ok THEN [s EXCEPT !.jpeg = Raise(@), !.done = TRUE]
    ELSE IF s.comp < 2
    THEN [s EXCEPT !.pos = m.pos, !.comp = @ + 1,
                   !.old = [@ EXCEPT ![s.comp + 1] = m.DCcoeff],
                   !.cur = Append(@, m.dct_block)]
    ELSE [s EXCEPT !.jpeg = [@ EXCEPT !.dct_blocks =
                               Append(@, [Y |-> s.cur[1], Cb |-> s.cur[2], Cr |-> m.dct_block,
                                          x |-> s.n % (s.jpeg.width \div 8),
                                          y |-> s.n \div (s.jpeg.width \div 8)])],
                   !.pos = m.pos, !.n = @ + 1, !.comp = 0,
                   !.old = [@ EXCEPT ![3] = m.DCcoeff], !.cur = <<>>]

\* one build_matrix call, or the end of the loops
ScanStep(s, data) ==
    IF s.n >= (s.jpeg.height \div 8) * (s.jpeg.width \div 8) THEN [s EXCEPT !.done = TRUE]
    ELSE IF Len(s.jpeg.quant_mapping) < 3
            \/ \E c \in 1..3 : s.jpeg.quant_mapping[c] \notin DOMAIN s.jpeg.quant
    THEN [s EXCEPT !.jpeg = Raise(@), !.done = TRUE]
    ELSE ScanBlock(s, build_matrix(s.jpeg.huffman_tables, data, s.pos,
                                   IF s.comp = 0 THEN 0 ELSE 1,
                                   s.jpeg.quant[s.jpeg.quant_mapping[s.comp + 1]],
                                   s.old[s.comp + 1]))

\* at most k steps from state s, the first half of them first
RECURSIVE ScanLoop(_, _, _)
ScanLoop(s, data, k) ==
    IF s.done THEN s
    ELSE IF k <= 1 THEN ScanStep(s, data)
    ELSE LET first == ScanLoop(s, data, k \div 2)
         IN  IF first.done THEN first ELSE ScanLoop(first, data, k - (k \div 2))

\* start_of_scan on the de-stuffed scan data r: three blocks per MCU, and
\* one more step to leave the loops
ScanData(jpeg, headerLen, r) ==
    IF ~r.ok \/ jpeg.height < 0 THEN [jpeg |-> Raise(jpeg), consumed |-> 0]
    ELSE [jpeg |-> ScanLoop([jpeg |-> jpeg, pos |-> 0, n |-> 0, comp |-> 0,
                             old |-> <<0, 0, 0>>, cur |-> <<>>, done |-> FALSE],
                            r.datapro,
                            3 * (jpeg.height \div 8) * (jpeg.width \div 8) + 1).jpeg,
          consumed |-> r.i + headerLen]

\* JPEG.start_of_scan(data, headerLen): [jpeg, consumed]
start_of_scan(jpeg, data, headerLen) ==
    ScanData(jpeg, headerLen, remove_FF00(Slice(data, headerLen, Len(data))))

\* the handler of one marker of JPEG.decode: [jpeg, consumed], consumed
\* being how far data moves on
DecodeChunk(jpeg, marker, data, lenchunk) ==
    IF marker = 65498 THEN start_of_scan(jpeg, data, lenchunk)
    ELSE [jpeg |-> IF marker = 65476 THEN decode_huffman(jpeg, Slice(data, 4, lenchunk))
                   ELSE IF marker = 65499
                   THEN define_quantization_tables(jpeg, Slice(data, 4, lenchunk))
                   ELSE IF marker = 65472 THEN BaselineDCT(jpeg, Slice(data, 4, lenchunk))
                   ELSE jpeg,
          consumed |-> lenchunk]

\* the while loop of JPEG.decode with data = img_data[off:].  Its state s is
\* [jpeg, off, done]; DecodeStep is one iteration, DecodeMarker the
\* iteration after the marker is read, DecodeNext after its handler
\* returned r.
\* an iteration that leaves data where it was (no "data = data[lenchunk:]")
DecodeNextStay(s, len, r) ==
    IF ~r.jpeg.ok THEN [s EXCEPT !.jpeg = r.jpeg, !.done = TRUE]
    ELSE IF len - r.consumed <= 0 THEN [s EXCEPT !.jpeg = r.jpeg, !.done = TRUE]
    ELSE [s EXCEPT !.jpeg = r.jpeg]

DecodeNext(s, len, r) ==
    IF ~r.jpeg.ok THEN [s EXCEPT !.jpeg = r.jpeg, !.done = TRUE]
    ELSE IF len - r.consumed <= 0 THEN [s EXCEPT !.jpeg = r.jpeg, !.done = TRUE]
    ELSE [s EXCEPT !.jpeg = r.jpeg, !.off = @ + r.consumed]

DecodeMarker(s, marker, data) ==
    IF marker = 65496 THEN
        IF Len(data) - 2 = 0 THEN [s EXCEPT !.done = TRUE] ELSE [s EXCEPT !.off = @ + 2]
    ELSE IF marker = 65497 THEN [s EXCEPT !.done = TRUE]
    ELSE IF Len(data) < 4 THEN [s EXCEPT !.jpeg = Raise(@), !.done = TRUE]
    ELSE DecodeNext(s, Len(data), DecodeChunk(s.jpeg, marker, data, Unpack16(data, 2) + 2))

DecodeStep(s, img_data) ==
    IF Len(img_data) - s.off < 2 THEN [s EXCEPT !.jpeg = Raise(@), !.done = TRUE]
    ELSE DecodeMarker(s, Unpack16(img_data, s.off), Slice(img_data, s.off, Len(img_data)))

\* at most k iterations from state s, the first half of them first
RECURSIVE DecodeLoop(_, _, _)
DecodeLoop(s, img_data, k) ==
    IF s.done THEN s
    ELSE IF k <= 1 THEN DecodeStep(s, img_data)
    ELSE LET first == DecodeLoop(s, img_data, k \div 2)
         IN  IF first.done THEN first ELSE DecodeLoop(first, img_data, k - (k \div 2))

\* the iterations that a file of that many bytes can take: each one that
\* does not leave the loop moves off on by 2 bytes or more
DecodeBound(img_data) == (Len(img_data) \div 2) + 1

\* JPEG(image_file).decode()
JPEGdecode(img_data) ==
    DecodeLoop([jpeg |-> NewJPEG, off |-> 0, done |-> FALSE], img_data, DecodeBound(img_data)).jpeg

----------------------------------------------------------------------------
(* File writer: JPEGEncoder.encode (src/jpeg_encoder.py) *)

\* the ids of a dict in sorted(...) order
RECURSIVE SortedKeys(_)
SortedKeys(keys) ==
    IF keys = {} THEN <<>>
    ELSE LET k == CHOOSE a \in keys : \A b \in keys : a <= b
         IN  <<k>> \o SortedKeys(keys \ {k})

\* lines 277-286
APP0Segment ==
    LET jfif_header == <<74, 70, 73, 70, 0>> \o <<1, 1>> \o <<0>> \o Pack16(1) \o Pack16(1) \o <<0, 0>>
    IN  Pack16(65504) \o Pack16(Len(jfif_header) + 2) \o jfif_header

\* lines 289-293, one table
DQTSegment(table_id, table) ==
    Pack16(65499) \o Pack16(67) \o <<table_id>> \o AsSeq(table, 64)

\* lines 295-316
SOF0Segment(height, width, quant_mapping) ==
    Pack16(65472) \o Pack16(17) \o <<8>> \o Pack16(height) \o Pack16(width) \o <<3>>
    \o <<1, 17, quant_mapping[1]>> \o <<2, 17, quant_mapping[2]>> \o <<3, 17, quant_mapping[3]>>

\* one of the four blocks of _write_dht_marker: nothing when the table is
\* absent
DHTSegment(huffman_tables, table_id) ==
    IF table_id \notin DOMAIN huffman_tables THEN <<>>
    ELSE LET d == extract_huffman_data(huffman_tables[table_id])
         IN  Pack16(65476) \o Pack16(2 + 1 + 16 + Len(d.symbols)) \o <<table_id>>
             \o d.lengths \o d.symbols

\* a DHT writer that goes through the tables by ascending id: DC0, DC1, AC0, AC1
write_dht_marker_by_id(huffman_tables) ==
    DHTSegment(huffman_tables, 0) \o DHTSegment(huffman_tables, 1)
    \o DHTSegment(huffman_tables, 16) \o DHTSegment(huffman_tables, 17)

\* JPEGEncoder._write_dht_marker: DC0, AC0, DC1, AC1
write_dht_marker(huffman_tables) ==
    DHTSegment(huffman_tables, 0) \o DHTSegment(huffman_tables, 16)
    \o DHTSegment(huffman_tables, 1) \o DHTSegment(huffman_tables, 17)

\* lines 321-332
SOSHeader ==
    Pack16(65498) \o Pack16(12) \o <<3>> \o <<1, 0>> \o <<2, 17>> \o <<3, 17>> \o <<0, 63, 0>>

\* line 341: sorted(self.dct_blocks, key=(y, x))
SortBlocks(dct_blocks) ==
    SortSeq(dct_blocks, LAMBDA a, b : a.y < b.y \/ (a.y = b.y /\ a.x < b.x))

\* lines 343-369 from block n on: the bits of the scan
RECURSIVE EncodeScan(_, _, _, _, _, _, _)
EncodeScan(code_tables, quant, qm, blocks, n, prev, acc) ==
    IF n > Len(blocks) THEN acc
    ELSE
      LET y == encode_block(code_tables, blocks[n].Y, quant[qm[1]], 0, 16, prev[1])
          cb == encode_block(code_tables, blocks[n].Cb, quant[qm[2]], 1, 17, prev[2])
          cr == encode_block(code_tables, blocks[n].Cr, quant[qm[3]], 1, 17, prev[3])
      IN  EncodeScan(code_tables, quant, qm, blocks, n + 1, <<y.dc, cb.dc, cr.dc>>,
                     acc \o y.bits \o cb.bits \o cr.bits)

\* JPEGEncoder.__init__ (lines 19-22)
CodeTables(huffman_tables) ==
    [id \in DOMAIN huffman_tables |-> build_huffman_code_table(huffman_tables[id])]

\* what the encoder needs to be there: a missing table or component is a
\* KeyError or IndexError, a zero quantization value a ZeroDivisionError
CanEncode(jpeg) ==
    /\ Len(jpeg.quant_mapping) >= 3
    /\ \A c \in 1..3 : /\ jpeg.quant_mapping[c] \in DOMAIN jpeg.quant
                       /\ \A i \in 0..63 : jpeg.quant[jpeg.quant_mapping[c]][i] # 0
    /\ {0, 1, 16, 17} \subseteq DOMAIN jpeg.huffman_tables

RECURSIVE DQTSegments(_, _)
DQTSegments(quant, ids) ==
    IF Len(ids) = 0 THEN <<>>
    ELSE DQTSegment(Head(ids), quant[Head(ids)]) \o DQTSegments(quant, Tail(ids))

\* JPEGEncoder(jpeg).encode(output_path): the bytes written to output_path
JPEGEncoder_encode(jpeg) ==
    Pack16(65496)
    \o APP0Segment
    \o DQTSegments(jpeg.quant, SortedKeys(DOMAIN jpeg.quant))
    \o SOF0Segment(jpeg.height, jpeg.width, jpeg.quant_mapping)
    \o write_dht_marker(jpeg.huffman_tables)
    \o SOSHeader
    \o bits_to_bytes(EncodeScan(CodeTables(jpeg.huffman_tables), jpeg.quant, jpeg.quant_mapping,
                                SortBlocks(jpeg.dct_blocks), 1, <<0, 0, 0>>, <<>>))
    \o Pack16(65497)

----------------------------------------------------------------------------
(* DCTDM.embed_message and DCTDM.extract_message: the coefficient walk *)

\* a walk of three pairs per row, range(0, 5, 2): 21 pairs per block
PairColsOfThree == <<0, 2, 4>>

\* range(0, 8): a walk that does not skip row 0
PairRowsFromZero == <<0, 1, 2, 3, 4, 5, 6, 7>>

\* range(1, 8) and range(0, 7, 2) of the two walks
PairRows == <<1, 2, 3, 4, 5, 6, 7>>

PairCols == <<0, 2, 4, 6>>

PairsPerBlock == Len(PairRows) * Len(PairCols)

\* the p-th pair (p = 0, 1, ...) visited by the nested loops
\* "for block_data / for row / for j": block number (1-based), row, column
PairBlock(p) == (p \div PairsPerBlock) + 1

PairRow(p) == PairRows[((p % PairsPerBlock) \div Len(PairCols)) + 1]

PairCol(p) == PairCols[(p % Len(PairCols)) + 1]

\* lines 1281-1284: the framed bitstream of message_to_embed
BinaryMessage(message_to_embed) ==
    Format0b(Len(message_to_embed), 16)
    \o Concat([i \in 1..Len(message_to_embed) |-> Format0b(message_to_embed[i], 8)])

\* a pair update that moves the first coefficient alone by the whole new_diff
EmbedPairOneSided(ac1_quant, ac2_quant, bit1, bit2, delta) ==
    LET k == Abs(ac1_quant - ac2_quant) \div delta
        epsilon1 == 4 * k * delta + delta
        epsilon2 == 4 * k * delta + 3 * delta
        new_diff == IF bit1 = 0 /\ bit2 = 0 THEN epsilon1
                    ELSE IF bit1 = 0 /\ bit2 = 1 THEN epsilon2
                    ELSE IF bit1 = 1 /\ bit2 = 0 THEN -epsilon2
                    ELSE -epsilon1
    IN  <<PyRound(4 * ac1_quant + new_diff, 4), ac2_quant>>

\* lines 1327-1351: the new quantized pair for (ac1_quant, ac2_quant) and two
\* bits.  epsilon and new_diff are kept as quarters (delta / 4 is a float),
\* avg_quant +- new_diff / 2 as eighths.
EmbedPair(ac1_quant, ac2_quant, bit1, bit2, delta) ==
    LET abs_D == Abs(ac1_quant - ac2_quant)
        k == abs_D \div delta
        epsilon1 == 4 * k * delta + delta
        epsilon2 == 4 * k * delta + 3 * delta
        new_diff == IF bit1 = 0 /\ bit2 = 0 THEN epsilon1
                    ELSE IF bit1 = 0 /\ bit2 = 1 THEN epsilon2
                    ELSE IF bit1 = 1 /\ bit2 = 0 THEN -epsilon2
                    ELSE -epsilon1
        avg_quant == 4 * (ac1_quant + ac2_quant)
    IN  <<PyRound(avg_quant + new_diff, 8), PyRound(avg_quant - new_diff, 8)>>

\* a decision rule whose boundary is the upper end of the bin, k*delta + delta
ExtractPairUpperBoundary(ac1_quant, ac2_quant, delta) ==
    LET D == ac1_quant - ac2_quant
        abs_D == Abs(D)
        k == abs_D \div delta
        is_epsilon2 == abs_D >= k * delta + delta
    IN  IF D >= 0
        THEN IF is_epsilon2 THEN <<0, 1>> ELSE <<0, 0>>
        ELSE IF is_epsilon2 THEN <<1, 0>> ELSE <<1, 1>>

\* lines 1469-1491: the two bits read from a quantized pair
ExtractPair(ac1_quant, ac2_quant, delta) ==
    LET D == ac1_quant - ac2_quant
        abs_D == Abs(D)
        k == abs_D \div delta
        is_epsilon2 == 2 * abs_D >= 2 * k * delta + delta
    IN  IF D >= 0
        THEN IF is_epsilon2 THEN <<0, 1>> ELSE <<0, 0>>
        ELSE IF is_epsilon2 THEN <<1, 0>> ELSE <<1, 1>>

\* the quantized pair both walks recover at (row, j) of a Y block
QuantPair(block, quant_Y, row, j) ==
    <<PyRound(block[row][j], quant_Y[row * 8 + j]),
      PyRound(block[row][j + 1], quant_Y[row * 8 + (j + 1)])>>

\* lines 1295-1366, from pair p on: the blocks after the walk and bit_index.
\* The three loops leave as soon as bit_index + 1 >= len(binary_message), so
\* they handle n pairs, two bits each; the pairs are disjoint cells, and
\* cell (row, col) of block b is rewritten when it lies in one of them.
EmbedWalk(dct_blocks, quant_Y, delta, binary_message, p, bit_index) ==
    LET left == Len(dct_blocks) * PairsPerBlock - p
        todo == (Len(binary_message) - bit_index) \div 2
        n == IF left <= 0 \/ todo <= 0 THEN 0 ELSE Min(left, todo)
        PairsAt(b, row, col) ==
            {pp \in p..(p + n - 1) : /\ PairBlock(pp) = b
                                     /\ PairRow(pp) = row
                                     /\ col \in {PairCol(pp), PairCol(pp) + 1}}
        NewCell(b, row, col, pp) ==
            LET j == PairCol(pp)
                q == QuantPair(dct_blocks[b].Y, quant_Y, row, j)
                new == EmbedPair(q[1], q[2], binary_message[bit_index + 2 * (pp - p) + 1],
                                 binary_message[bit_index + 2 * (pp - p) + 2], delta)
            IN  IF col = j THEN new[1] * quant_Y[row * 8 + j]
                ELSE new[2] * quant_Y[row * 8 + (j + 1)]
    IN  [dct_blocks |->
            [b \in 1..Len(dct_blocks) |->
                [dct_blocks[b] EXCEPT !.Y =
                    [row \in 0..7 |-> [col \in 0..7 |->
                        IF PairsAt(b, row, col) = {} THEN dct_blocks[b].Y[row][col]
                        ELSE NewCell(b, row, col, CHOOSE pp \in PairsAt(b, row, col) : TRUE)]]]],
         bit_index |-> bit_index + 2 * n]

\* lines 1501-1504: the test on the decoded prefix and len(extracted_bits)
WalkStops(msg_length, nbits) ==
    /\ msg_length > 0
    /\ msg_length < 10000
    /\ nbits >= 16 + msg_length * 8

\* line 1531: the sanity check after the walk
LengthRejected(msg_length) == msg_length = 0 \/ msg_length > 10000

\* a stop test that looks at the length prefix alone
HasLengthPrefix(extracted_bits) ==
    /\ Len(extracted_bits) >= 16
    /\ LET msg_length == BitsToInt(SubSeq(extracted_bits, 1, 16))
       IN  msg_length > 0 /\ msg_length < 10000

\* lines 1500-1506 (and again 1508-1513, 1515-1520): the walk may stop
HasCompleteMessage(extracted_bits) ==
    /\ Len(extracted_bits) >= 16
    /\ WalkStops(BitsToInt(SubSeq(extracted_bits, 1, 16)), Len(extracted_bits))

\* lines 1450-1520, from pair p on: extracted_bits.  Every pair adds its
\* two bits; the loops leave after the first pair at which the test holds,
\* or after the last pair of the last block.
ExtractWalk(dct_blocks, quant_Y, delta, p, extracted_bits) ==
    LET left == Len(dct_blocks) * PairsPerBlock - p
        PairBits(pp) ==
            LET q == QuantPair(dct_blocks[PairBlock(pp)].Y, quant_Y, PairRow(pp), PairCol(pp))
            IN  ExtractPair(q[1], q[2], delta)
        all == extracted_bits \o Concat([k \in 1..left |-> PairBits(p + k - 1)])
        BitsAfter(k) == SubSeq(all, 1, Len(extracted_bits) + 2 * k)
        stops == {k \in 1..left : HasCompleteMessage(BitsAfter(k))}
    IN  IF left <= 0 THEN extracted_bits
        ELSE IF stops = {} THEN all
        ELSE BitsAfter(CHOOSE k \in stops : \A m \in stops : k <= m)

\* lines 1538-1543: one character per complete group of 8 message bits
BitsToText(message_bits) ==
    [i \in 1..(Len(message_bits) \div 8) |->
        BitsToInt(SubSeq(message_bits, 8 * (i - 1) + 1, 8 * i))]

----------------------------------------------------------------------------
(* Files, passwords, the password layer *)

\* Python's None where the source takes an optional str
None == "<None>"

\* "if password:" -- None and the empty string are both false
Truthy(password) == password # None /\ password # ""

\* A path is the sequence of its pieces, the piece ".jpg" being the one
\* str.replace('.jpg', '.meta') looks for (lines 1376 and 1425)
ReplaceJpgMeta(path) == [i \in DOMAIN path |-> IF path[i] = ".jpg" THEN ".meta" ELSE path[i]]

\* os.path.join('Output Images', output_file)
OutputPath(output_file) == <<"Output Images/">> \o output_file

\* pickle.dump({'encrypted': flag}) (protocol 4) and pickle.load
PickleDump(flag) ==
    <<128, 4, 149, 17, 0, 0, 0, 0, 0, 0, 0, 125, 148, 140, 9, 101, 110, 99, 114,
      121, 112, 116, 101, 100, 148, IF flag THEN 136 ELSE 137, 115, 46>>

PickleLoad(bytes) ==
    IF bytes = PickleDump(TRUE) THEN [ok |-> TRUE, encrypted |-> TRUE]
    ELSE IF bytes = PickleDump(FALSE) THEN [ok |-> TRUE, encrypted |-> FALSE]
    ELSE [ok |-> FALSE, encrypted |-> FALSE]

\* _decrypt_message after base64.b64decode (lines 1550-1551): Fernet is
\* authenticated, so only a text that _encrypt_message issued under the same
\* password decrypts; tokens is the set of texts issued so far
DecryptText(tokens, text, password) ==
    LET hits == {t \in tokens : t.text = text /\ t.password = password}
    IN  IF hits = {} THEN [ok |-> FALSE, message |-> <<>>]
        ELSE [ok |-> TRUE, message |-> (CHOOSE t \in hits : TRUE).message]

----------------------------------------------------------------------------
(* DCTDM.embed_message *)

EmbedRaise(files, tokens, err, bits, mcus) ==
    [ok |-> FALSE, err |-> err, files |-> files, tokens |-> tokens, stego |-> <<>>,
     bits |-> bits, bit_index |-> 0, mcus |-> mcus, pairs |-> PairsPerBlock * mcus,
     decoded |-> NewJPEG, walked |-> NewJPEG]

\* lines 1370-1378: the stego file and the sidecar written next to it
EmbedFiles(files, output_path, password, stego) ==
    (ReplaceJpgMeta(output_path) :> PickleDump(password # None))
    @@ (output_path :> stego) @@ files

\* embed_message after encoder.encode wrote the bytes stego: sidecar, return
EmbedSaved(files, tokens, output_file, password, jpeg, bits, walk, stego) ==
    [ok |-> TRUE, err |-> "",
     files |-> EmbedFiles(files, OutputPath(output_file), password, stego),
     tokens |-> tokens, stego |-> stego, bits |-> bits, bit_index |-> walk.bit_index,
     mcus |-> Len(jpeg.dct_blocks), pairs |-> PairsPerBlock * Len(jpeg.dct_blocks),
     decoded |-> jpeg, walked |-> [jpeg EXCEPT !.dct_blocks = walk.dct_blocks]]

\* embed_message after the walk: encode, write, return
EmbedWritten(files, tokens, output_file, password, jpeg, bits, walk) ==
    EmbedSaved(files, tokens, output_file, password, jpeg, bits, walk,
               JPEGEncoder_encode([jpeg EXCEPT !.dct_blocks = walk.dct_blocks]))

\* embed_message from line 1277 on, with the framed bits of message_to_embed
EmbedBits(files, tokens, delta, output_file, password, jpeg, binary_message) ==
    IF Len(jpeg.quant_mapping) = 0
    THEN EmbedRaise(files, tokens, "IndexError", 0, Len(jpeg.dct_blocks))
    ELSE IF jpeg.quant_mapping[1] \notin DOMAIN jpeg.quant
    THEN EmbedRaise(files, tokens, "KeyError", 0, Len(jpeg.dct_blocks))
    ELSE IF Len(jpeg.dct_blocks) > 0
            /\ (delta = 0 \/ \E i \in 0..63 : jpeg.quant[jpeg.quant_mapping[1]][i] = 0)
    THEN EmbedRaise(files, tokens, "ZeroDivisionError", Len(binary_message),
                    Len(jpeg.dct_blocks))
    ELSE IF ~CanEncode(jpeg)
    THEN EmbedRaise(files, tokens, "KeyError", Len(binary_message), Len(jpeg.dct_blocks))
    ELSE EmbedWritten(files, tokens, output_file, password, jpeg, Len(binary_message),
                      EmbedWalk(jpeg.dct_blocks, jpeg.quant[jpeg.quant_mapping[1]], delta,
                                binary_message, 0, 0))

\* embed_message after jpeg.decode(): lines 1268-1276.  encrypted_text stands
\* for base64(salt + Fernet token) of lines 1272-1274, drawn by the caller:
\* the salt and the IV are random
EmbedDecoded(files, tokens, delta, secret_message, output_file, password, encrypted_text, jpeg) ==
    IF ~jpeg.ok THEN EmbedRaise(files, tokens, "DecodeError", 0, 0)
    ELSE IF Truthy(password)
    THEN EmbedBits(files,
                   tokens \cup {[text |-> encrypted_text, password |-> password,
                                 message |-> secret_message]},
                   delta, output_file, password, jpeg, BinaryMessage(encrypted_text))
    ELSE EmbedBits(files, tokens, delta, output_file, password, jpeg,
                   BinaryMessage(secret_message))

\* DCTDM.embed_message(secret_message, output_file, password) on the object
\* (image_file, delta): [ok, err, files, tokens, stego, bits, bit_index, mcus,
\* pairs, decoded, walked], the last two the store after jpeg.decode() and the
\* store handed to the encoder
embed_message(files, tokens, image_file, delta, secret_message, output_file, password, encrypted_text) ==
    IF image_file \notin DOMAIN files THEN EmbedRaise(files, tokens, "OSError", 0, 0)
    ELSE EmbedDecoded(files, tokens, delta, secret_message, output_file, password,
                      encrypted_text, JPEGdecode(files[image_file]))

----------------------------------------------------------------------------
(* DCTDM.extract_message *)

\* the str of line 1556
PasswordRequiredText ==
    <<91, 69, 78, 67, 82, 89, 80, 84, 69, 68, 32, 45, 32, 80, 65, 83, 83, 87, 79, 82,
      68, 32, 82, 69, 81, 85, 73, 82, 69, 68, 93>>

\* lines 1424-1439: is_encrypted after the metadata block.  The ValueError of
\* line 1437 is raised inside the try and caught by its "except Exception".
ReadSidecar(files, stego_file) ==
    LET metadata_path == ReplaceJpgMeta(stego_file)
    IN  IF metadata_path \in DOMAIN files
        THEN LET m == PickleLoad(files[metadata_path])
             IN  IF m.ok THEN m.encrypted ELSE FALSE
        ELSE FALSE

ExtractDone(ok, err, text, is_encrypted, nbits, msg_length) ==
    [ok |-> ok, err |-> err, text |-> text, is_encrypted |-> is_encrypted,
     nbits |-> nbits, msg_length |-> msg_length]

\* lines 1545-1558: the message read, decrypted or replaced
ExtractText(tokens, password, is_encrypted, nbits, msg_length, message, dec) ==
    IF is_encrypted /\ Truthy(password)
    THEN IF dec.ok THEN ExtractDone(TRUE, "", dec.message, is_encrypted, nbits, msg_length)
         ELSE ExtractDone(FALSE, "ValueError: Decryption failed", <<>>, is_encrypted,
                          nbits, msg_length)
    ELSE IF is_encrypted /\ ~Truthy(password)
    THEN ExtractDone(TRUE, "", PasswordRequiredText, is_encrypted, nbits, msg_length)
    ELSE ExtractDone(TRUE, "", message, is_encrypted, nbits, msg_length)

\* lines 1526-1543: the characters of message_bits = extracted_bits[16:16+8L]
ExtractMessageBits(tokens, password, is_encrypted, nbits, msg_length, message) ==
    ExtractText(tokens, password, is_encrypted, nbits, msg_length, message,
                DecryptText(tokens, message, password))

\* lines 1522-1536: the length prefix
ExtractLength(tokens, password, is_encrypted, extracted_bits, msg_length) ==
    IF LengthRejected(msg_length)
    THEN ExtractDone(TRUE, "", <<>>, is_encrypted, Len(extracted_bits), msg_length)
    ELSE ExtractMessageBits(tokens, password, is_encrypted, Len(extracted_bits), msg_length,
             BitsToText(SubSeq(extracted_bits, 17,
                               Min(16 + msg_length * 8, Len(extracted_bits)))))

ExtractBits(tokens, password, is_encrypted, extracted_bits) ==
    IF Len(extracted_bits) < 16
    THEN ExtractDone(TRUE, "", <<>>, is_encrypted, Len(extracted_bits), -1)
    ELSE ExtractLength(tokens, password, is_encrypted, extracted_bits,
                       BitsToInt(SubSeq(extracted_bits, 1, 16)))

\* extract_message after jpeg.decode(): lines 1445-1520
ExtractDecoded(tokens, delta, password, is_encrypted, jpeg) ==
    IF ~jpeg.ok THEN ExtractDone(FALSE, "DecodeError", <<>>, is_encrypted, 0, -1)
    ELSE IF Len(jpeg.quant_mapping) = 0
    THEN ExtractDone(FALSE, "IndexError", <<>>, is_encrypted, 0, -1)
    ELSE IF jpeg.quant_mapping[1] \notin DOMAIN jpeg.quant
    THEN ExtractDone(FALSE, "KeyError", <<>>, is_encrypted, 0, -1)
    ELSE IF Len(jpeg.dct_blocks) > 0
            /\ (delta = 0 \/ \E i \in 0..63 : jpeg.quant[jpeg.quant_mapping[1]][i] = 0)
    THEN ExtractDone(FALSE, "ZeroDivisionError", <<>>, is_encrypted, 0, -1)
    ELSE ExtractBits(tokens, password, is_encrypted,
                     ExtractWalk(jpeg.dct_blocks, jpeg.quant[jpeg.quant_mapping[1]], delta,
                                 0, <<>>))

\* DCTDM.extract_message(stego_file, password) on an object with delta.
\* ok = FALSE: an exception reaches the caller; ok = TRUE: text is returned.
\* nbits and msg_length report len(extracted_bits) and the decoded prefix
\* (-1 when fewer than 16 bits were read).
extract_message(files, tokens, delta, stego_file, password) ==
    IF stego_file \notin DOMAIN files
    THEN ExtractDone(FALSE, "OSError", <<>>, ReadSidecar(files, stego_file), 0, -1)
    ELSE ExtractDecoded(tokens, delta, password, ReadSidecar(files, stego_file),
                        JPEGdecode(files[stego_file]))

----------------------------------------------------------------------------
(* Inputs: the cover images on disk, the messages, the passwords *)

MaxBlocks == 2

MaxMsgLen == 6

CipherLen == 2

\* Huffman tables of the covers as DHT data (BITS, symbols).
\* Luminance DC and chrominance DC are the tables of ITU-T T.81 Annex K.3.
DcLumDHT ==
    [lengths |-> <<0, 1, 5, 1, 1, 1, 1, 1, 1, 0, 0, 0, 0, 0, 0, 0>>,
     symbols |-> <<0, 1, 2, 3, 4, 5, 6, 7, 8, 9, 10, 11>>]

DcChrDHT ==
    [lengths |-> <<0, 3, 1, 1, 1, 1, 1, 1, 1, 1, 1, 0, 0, 0, 0, 0>>,
     symbols |-> <<0, 1, 2, 3, 4, 5, 6, 7, 8, 9, 10, 11>>]

\* Luminance AC: EOB, the run/size symbols of runs 0..14 and sizes 1..3 and
\* ZRL at length 6, the sizes 1..3 of run 15 at length 7
RunSizeSymbols == Concat([r \in 1..15 |-> <<(r - 1) * 16 + 1, (r - 1) * 16 + 2, (r - 1) * 16 + 3>>])

AcLumDHT ==
    [lengths |-> <<0, 1, 0, 0, 0, 46, 3, 0, 0, 0, 0, 0, 0, 0, 0, 0>>,
     symbols |-> <<0>> \o RunSizeSymbols \o <<240>> \o <<241, 242, 243>>]

\* the same code lengths with two symbols of length 6 (run 1, sizes 1 and 2)
\* listed most frequent first, as an encoder that orders symbols by frequency
\* writes them
AcLumUnsortedDHT ==
    [lengths |-> AcLumDHT.lengths,
     symbols |-> [i \in DOMAIN AcLumDHT.symbols |->
                    IF AcLumDHT.symbols[i] = 17 THEN 18
                    ELSE IF AcLumDHT.symbols[i] = 18 THEN 17
                    ELSE AcLumDHT.symbols[i]]]

AcChrDHT ==
    [lengths |-> <<0, 2, 1, 0, 0, 0, 0, 0, 0, 0, 0, 0, 0, 0, 0, 0>>,
     symbols |-> <<0, 1, 2>>]

\* "progressive" has SOF2 (0xFFC2) where the others have SOF0, "dac" a DAC
\* segment (0xFFCC) after SOF0, "subsampled" the sampling byte 0x22 for Y,
\* "merged" one DQT segment with both tables and one DHT segment with all
\* four
CoverKinds == {"plain", "nonuniform", "unsorted", "progressive", "dac", "subsampled", "merged"}

CoverDHT(kind) ==
    (0 :> DcLumDHT) @@ (16 :> (IF kind = "unsorted" THEN AcLumUnsortedDHT ELSE AcLumDHT))
    @@ (1 :> DcChrDHT) @@ (17 :> AcChrDHT)

\* quantization tables as the DQT segment lists them
CoverQuant(kind) ==
    (0 :> [i \in 0..63 |-> IF kind = "nonuniform" THEN (IF i % 2 = 0 THEN 1 ELSE 3) ELSE 2])
    @@ (1 :> [i \in 0..63 |-> 3])

\* quantized coefficients of MCU number b of a cover, at [row][col]
CoverQ(comp, b, row, col) ==
    IF comp = "Y" THEN
        IF row = 0 /\ col = 0 THEN 5 * b
        ELSE IF row = 1 /\ col = 0 THEN 1
        ELSE IF row = 1 /\ col = 1 THEN -1
        ELSE IF row = 2 /\ col = 3 THEN 2
        ELSE IF row = 7 /\ col = 7 /\ b = 2 THEN -1
        ELSE 0
    ELSE IF comp = "Cb" THEN
        IF row = 0 /\ col = 0 THEN -3 ELSE IF row = 0 /\ col = 1 THEN 1 ELSE 0
    ELSE IF row = 0 /\ col = 0 THEN 2 * b ELSE 0

\* the 8x8 block the decoder holds for those coefficients: each value times
\* the quantization value of its zigzag position
CoverBlock(kind, comp, b) ==
    LET Q == CoverQuant(kind)[IF comp = "Y" THEN 0 ELSE 1]
    IN  [row \in 0..7 |-> [col \in 0..7 |->
            CoverQ(comp, b, row, col) * Q[zigzag[row * 8 + col]]]]

\* the decoded form of a cover of n MCUs (8n x 8 pixels)
CoverStore(kind, n) ==
    [ok |-> TRUE,
     huffman_tables |-> [id \in {0, 1, 16, 17} |->
         get_huffman_bits(CoverDHT(kind)[id].lengths, CoverDHT(kind)[id].symbols).root],
     quant |-> CoverQuant(kind),
     quant_mapping |-> <<0, 1, 1>>,
     dct_blocks |-> [b \in 1..n |->
         [Y |-> CoverBlock(kind, "Y", b), Cb |-> CoverBlock(kind, "Cb", b),
          Cr |-> CoverBlock(kind, "Cr", b), x |-> b - 1, y |-> 0]],
     height |-> 8, width |-> 8 * n]

DHTLiteral(table_id, dht) ==
    Pack16(65476) \o Pack16(2 + 1 + 16 + Len(dht.symbols)) \o <<table_id>>
    \o dht.lengths \o dht.symbols

\* the frame header of a cover file, and what follows it before the DHTs
CoverFrame(kind, c) ==
    Pack16(IF kind = "progressive" THEN 65474 ELSE 65472) \o Pack16(17) \o <<8>>
    \o Pack16(c.height) \o Pack16(c.width) \o <<3>>
    \o <<1, IF kind = "subsampled" THEN 34 ELSE 17, c.quant_mapping[1]>>
    \o <<2, 17, c.quant_mapping[2]>> \o <<3, 17, c.quant_mapping[3]>>
    \o (IF kind = "dac" THEN Pack16(65484) \o Pack16(4) \o <<0, 0>> ELSE <<>>)

\* the file an encoder writes for the store c, the DHT segments listing the
\* symbols in the tables' own order
\* the quantization tables of a cover file: a DQT segment each, or one
\* segment that holds both
CoverDQTs(kind, c) ==
    IF kind = "merged"
    THEN Pack16(65499) \o Pack16(2 + 65 + 65)
         \o <<0>> \o AsSeq(c.quant[0], 64) \o <<1>> \o AsSeq(c.quant[1], 64)
    ELSE DQTSegment(0, c.quant[0]) \o DQTSegment(1, c.quant[1])

\* one table of a DHT segment: Tc/Th, BITS, symbols
DHTTable(table_id, dht) == <<table_id>> \o dht.lengths \o dht.symbols

\* the Huffman tables of a cover file: a DHT segment each, or one segment
\* that holds the four
CoverDHTs(kind) ==
    IF kind = "merged"
    THEN LET tables == DHTTable(0, CoverDHT(kind)[0]) \o DHTTable(16, CoverDHT(kind)[16])
                       \o DHTTable(1, CoverDHT(kind)[1]) \o DHTTable(17, CoverDHT(kind)[17])
         IN  Pack16(65476) \o Pack16(2 + Len(tables)) \o tables
    ELSE DHTLiteral(0, CoverDHT(kind)[0]) \o DHTLiteral(16, CoverDHT(kind)[16])
         \o DHTLiteral(1, CoverDHT(kind)[1]) \o DHTLiteral(17, CoverDHT(kind)[17])

FileOf(kind, c) ==
        Pack16(65496) \o APP0Segment
        \o CoverDQTs(kind, c)
        \o CoverFrame(kind, c)
        \o CoverDHTs(kind)
        \o SOSHeader
        \o bits_to_bytes(EncodeScan(CodeTables(c.huffman_tables), c.quant, c.quant_mapping,
                                    c.dct_blocks, 1, <<0, 0, 0>>, <<>>))
        \o Pack16(65497)

CoverBytes(kind, n) == FileOf(kind, CoverStore(kind, n))

\* the covers on disk: plain ones of 1..MaxBlocks MCUs, and one MCU each with
\* a non-uniform quantization table and with frequency-ordered Huffman symbols
Covers == ({"plain"} \X (1..MaxBlocks)) \cup {<<"nonuniform", 1>>, <<"unsorted", 1>>}

CoverName(kind, n) == <<"cover_", kind, ToString(n), ".jpg">>

CoverNames == {CoverName(c[1], c[2]) : c \in Covers}

CoverFiles ==
    [name \in CoverNames |->
        LET c == CHOOSE c \in Covers : CoverName(c[1], c[2]) = name
        IN  CoverBytes(c[1], c[2])]

\* DCTDM(None, delta): no cover, extraction only
NoPath == <<>>

\* The files of the codec sessions: the one-MCU covers with one more
\* quantized Y coefficient, value at [row][col]
ExtraCells == {<<0, 1>>, <<3, 0>>, <<4, 4>>, <<7, 7>>}

ExtraValues == {-7, -1, 2, 5}

CodecCovers == CoverKinds \X ExtraCells \X ExtraValues

CodecStore(kind, cell, value) ==
    LET c == CoverStore(kind, 1)
        q == c.quant[0][zigzag[cell[1] * 8 + cell[2]]]
    IN  [c EXCEPT !.dct_blocks[1].Y[cell[1]][cell[2]] = value * q]

CodecName(kind) == <<"codec_", kind, ".jpg">>

ReencodedPath == <<"reencoded", ".jpg">>

\* the texts hidden: the first n characters of "hi!abcdefg..."
Alphabet == <<104, 105, 33, 97, 98, 99, 100, 101, 102, 103, 106, 107>>

Messages == {SubSeq(Alphabet, 1, n) : n \in 0..MaxMsgLen}

Passwords == {None, "", "pw", "wrong"}

Deltas == {-1, 0, 1, 10}

\* output_file: a name ending in .jpg and one that does not hold '.jpg'
OutputFiles == {<<"stego", ".jpg">>, <<"stego", ".jpeg">>}

\* base64 texts the password layer may produce (characters "A" and "z")
CipherTexts == {[i \in 1..CipherLen |-> c] : c \in {65, 122}}

----------------------------------------------------------------------------
(* The session: DCTDM(image_file, delta), then embed_message and            *)
(* extract_message on the object, as JPEGThread-style callers do.           *)

VARIABLES
    files,      \* the file system: path -> bytes
    tokens,     \* the texts _encrypt_message has issued
    dctdm,      \* the DCTDM object: delta, image_file
    pc,         \* "start", "ready", "embedded", "extracted", "failed"
    emb,        \* the last embed_message call: arguments and outcome
    ext,        \* the last extract_message call: arguments and outcome
    jpeg,       \* the JPEG object of a codec session (decode, encode, decode)
    hist,       \* that session's source file and the store first decoded from it
    bit_buffer, \* the bits handed to the bit writer so far
    scan_bytes, \* the bytes _bits_to_bytes made of them
    base,       \* IDCT.base: the 64 coefficients of a block in scan order
    zigzag_block, \* IDCT.zigzag: the table, then the 8x8 block made of base
    linear,     \* the list _zigzag_to_linear makes of that block
    pair,       \* one coefficient pair of the embedding walk, before and after
    message_to_embed, \* the text embed_message frames
    binary_message,   \* its framed bitstream
    number,     \* a value given to _encode_number, its (size, bits), and decode_number's result
    block_io,   \* a quantized block given to _encode_block, its bits, and build_matrix's reading
    prefix,     \* a length prefix and bit count, and what the tests of extract_message say
    parser      \* JPEG.decode step by step: img_data, the offset of data in it, the steps taken

vars ==
    <<files, tokens, dctdm, pc, emb, ext, jpeg, hist, bit_buffer, scan_bytes,
      base, zigzag_block, linear, pair, message_to_embed, binary_message,
      number, block_io, prefix, parser>>

sessionVars == <<dctdm, tokens, emb, ext>>

codecVars == <<jpeg, hist>>

writerVars == <<bit_buffer, scan_bytes>>

zigzagVars == <<base, zigzag_block, linear>>

framingVars == <<message_to_embed, binary_message>>

\* the state of the parts exercised on their own
\* the four exercised by the specifications further down
laterVars == <<number, block_io, prefix, parser>>

unitVars == <<zigzagVars, pair, framingVars, laterVars>>

\* none of the four in use
LaterIdle ==
    /\ number = <<>>
    /\ block_io = <<>>
    /\ prefix = <<>>
    /\ parser = <<>>

\* IDCT.__init__: self.zigzag holds the table
ZigzagTable == [x \in 0..7 |-> [y \in 0..7 |-> zigzag[x * 8 + y]]]

NoPair ==
    [ac1_quant |-> 0, ac2_quant |-> 0, delta |-> 0, bit1 |-> 0, bit2 |-> 0,
     new_ac1_quant |-> 0, new_ac2_quant |-> 0, extracted_bits |-> <<>>]

\* the parts exercised on their own, before any call
UnitIdle ==
    /\ base = ZeroBase
    /\ zigzag_block = ZigzagTable
    /\ linear = <<>>
    /\ pair = NoPair
    /\ message_to_embed = <<>>
    /\ binary_message = <<>>
    /\ LaterIdle

NoHist == [source |-> NoPath, first |-> NewJPEG, output |-> NoPath]

NoEmbed ==
    [done |-> FALSE, ok |-> FALSE, err |-> "", secret_message |-> <<>>, password |-> None,
     output_path |-> NoPath, stego |-> <<>>, bits |-> 0, bit_index |-> 0, mcus |-> 0,
     pairs |-> 0, decoded |-> NewJPEG, walked |-> NewJPEG]

NoExtract ==
    [done |-> FALSE, ok |-> FALSE, err |-> "", text |-> <<>>, stego_file |-> NoPath,
     password |-> None, is_encrypted |-> FALSE, nbits |-> 0, msg_length |-> -1]

Init ==
    /\ files = CoverFiles
    /\ tokens = {}
    /\ dctdm = [delta |-> 0, image_file |-> NoPath]
    /\ pc = "start"
    /\ emb = NoEmbed
    /\ ext = NoExtract
    /\ jpeg = NewJPEG
    /\ hist = NoHist
    /\ bit_buffer = <<>>
    /\ scan_bytes = <<>>
    /\ UnitIdle

\* DCTDM.__init__(image_file, delta); _ensure_baseline_jpeg decodes the cover
\* and hands an undecodable one to an external converter
Construct(image_file, delta) ==
    /\ pc = "start"
    /\ IF delta < 0 \/ (image_file # NoPath /\ ~JPEGdecode(files[image_file]).ok)
       THEN /\ pc' = "failed"
            /\ UNCHANGED dctdm
       ELSE /\ pc' = "ready"
            /\ dctdm' = [delta |-> delta, image_file |-> image_file]
    /\ UNCHANGED <<files, tokens, emb, ext, codecVars, writerVars, unitVars>>

\* the outcome r of the embed_message call
EmbedReturn(secret_message, output_file, password, r) ==
    /\ files' = r.files
    /\ tokens' = r.tokens
    /\ emb' = [done |-> TRUE, ok |-> r.ok, err |-> r.err,
               secret_message |-> secret_message, password |-> password,
               output_path |-> OutputPath(output_file), stego |-> r.stego, bits |-> r.bits,
               bit_index |-> r.bit_index, mcus |-> r.mcus, pairs |-> r.pairs,
               decoded |-> r.decoded, walked |-> r.walked]
    /\ pc' = IF r.ok THEN "embedded" ELSE "failed"

\* DCTDM.embed_message(secret_message, output_file, password)
EmbedMessage(secret_message, output_file, password, encrypted_text) ==
    /\ pc = "ready"
    /\ dctdm.image_file # NoPath
    /\ EmbedReturn(secret_message, output_file, password,
                   embed_message(files, tokens, dctdm.image_file, dctdm.delta, secret_message,
                                 output_file, password, encrypted_text))
    /\ UNCHANGED <<dctdm, ext, codecVars, writerVars, unitVars>>

\* the outcome r of the extract_message call
ExtractReturn(stego_file, password, r) ==
    ext' = [done |-> TRUE, ok |-> r.ok, err |-> r.err, text |-> r.text,
            stego_file |-> stego_file, password |-> password,
            is_encrypted |-> r.is_encrypted, nbits |-> r.nbits,
            msg_length |-> r.msg_length]

\* DCTDM.extract_message(stego_file, password)
ExtractMessage(stego_file, password) ==
    /\ \/ pc = "embedded" /\ stego_file = emb.output_path
       \/ pc = "ready" /\ dctdm.image_file = NoPath /\ stego_file \in DOMAIN files
    /\ ExtractReturn(stego_file, password,
                     extract_message(files, tokens, dctdm.delta, stego_file, password))
    /\ pc' = "extracted"
    /\ UNCHANGED <<files, tokens, dctdm, emb, codecVars, writerVars, unitVars>>

Next ==
    \/ \E image_file \in CoverNames \cup {NoPath}, delta \in Deltas :
          Construct(image_file, delta)
    \/ \E secret_message \in Messages, output_file \in OutputFiles :
          \/ \E password \in {None, ""} :
                EmbedMessage(secret_message, output_file, password, <<>>)
          \/ \E encrypted_text \in CipherTexts :
                EmbedMessage(secret_message, output_file, "pw", encrypted_text)
    \/ \E stego_file \in CoverNames \cup {OutputPath(f) : f \in OutputFiles},
          password \in Passwords :
          ExtractMessage(stego_file, password)

Spec == Init /\ [][Next]_vars

----------------------------------------------------------------------------
(* The codec on its own: JPEG(path).decode(), JPEGEncoder(jpeg).encode(out) *)
(* on the untouched object, and JPEG(out).decode().                         *)

InitCodec ==
    /\ \E c \in CodecCovers :
          files = (CodecName(c[1]) :> FileOf(c[1], CodecStore(c[1], c[2], c[3])))
    /\ tokens = {}
    /\ dctdm = [delta |-> 0, image_file |-> NoPath]
    /\ pc = "start"
    /\ emb = NoEmbed
    /\ ext = NoExtract
    /\ jpeg = NewJPEG
    /\ hist = NoHist
    /\ bit_buffer = <<>>
    /\ scan_bytes = <<>>
    /\ UnitIdle

\* the object r that jpeg.decode() leaves
DecodeReturn(image_file, r) ==
    /\ jpeg' = r
    /\ hist' = IF pc = "start" THEN [hist EXCEPT !.source = image_file, !.first = r] ELSE hist

\* jpeg = JPEG(image_file); jpeg.decode(): of the source file first, of the
\* re-encoded file afterwards
DecodeFile(image_file) ==
    /\ \/ pc = "start" /\ image_file \in DOMAIN files
       \/ pc = "encoded" /\ image_file = hist.output
    /\ DecodeReturn(image_file, JPEGdecode(files[image_file]))
    /\ pc' = IF pc = "start" THEN "decoded" ELSE "redecoded"
    /\ UNCHANGED <<files, sessionVars, writerVars, unitVars>>

\* JPEGEncoder(jpeg).encode(output_path)
EncodeFile(output_path) ==
    /\ pc = "decoded"
    /\ jpeg.ok
    /\ CanEncode(jpeg)
    /\ files' = (output_path :> JPEGEncoder_encode(jpeg)) @@ files
    /\ hist' = [hist EXCEPT !.output = output_path]
    /\ pc' = "encoded"
    /\ UNCHANGED <<jpeg, sessionVars, writerVars, unitVars>>

NextCodec ==
    \/ \E image_file \in {CodecName(kind) : kind \in CoverKinds} \cup {ReencodedPath} :
          DecodeFile(image_file)
    \/ EncodeFile(ReencodedPath)

SpecCodec == InitCodec /\ [][NextCodec]_vars

----------------------------------------------------------------------------
(* The bit writer on its own: _write_bits calls, then _bits_to_bytes *)

MaxBits == 16

InitBits ==
    /\ files = CoverFiles
    /\ tokens = {}
    /\ dctdm = [delta |-> 0, image_file |-> NoPath]
    /\ pc = "writing"
    /\ emb = NoEmbed
    /\ ext = NoExtract
    /\ jpeg = NewJPEG
    /\ hist = NoHist
    /\ bit_buffer = <<>>
    /\ scan_bytes = <<>>
    /\ UnitIdle

\* self._write_bits(bit_buffer, value, num_bits)
WriteBitsCall(value, num_bits) ==
    /\ pc = "writing"
    /\ Len(bit_buffer) + num_bits <= MaxBits
    /\ bit_buffer' = bit_buffer \o WriteBits(value, num_bits)
    /\ UNCHANGED <<files, pc, sessionVars, codecVars, scan_bytes, unitVars>>

\* scan_data = self._bits_to_bytes(bit_buffer)
BitsToBytesCall ==
    /\ pc = "writing"
    /\ scan_bytes' = bits_to_bytes(bit_buffer)
    /\ pc' = "written"
    /\ UNCHANGED <<files, sessionVars, codecVars, bit_buffer, unitVars>>

NextBits ==
    \/ \E num_bits \in 1..2 : \E value \in 0..(Pow2(num_bits) - 1) :
          WriteBitsCall(value, num_bits)
    \/ BitsToBytesCall

SpecBits == InitBits /\ [][NextBits]_vars

----------------------------------------------------------------------------
(* The zigzag reordering on its own: a fresh IDCT given a base, its         *)
(* rearrange_using_zigzag (decoder), then _zigzag_to_linear (encoder).      *)

\* the 64-entry arrays tried: one nonzero entry at any place, and arrays whose
\* entries all differ
BaseValues == {-3, 7}

BaseInputs ==
    {[ZeroBase EXCEPT ![n] = v] : n \in 0..63, v \in BaseValues}
    \cup {[n \in 0..63 |-> n + k] : k \in {1, 100}}

InitZigzag ==
    /\ files = CoverFiles
    /\ tokens = {}
    /\ dctdm = [delta |-> 0, image_file |-> NoPath]
    /\ pc = "idct"
    /\ emb = NoEmbed
    /\ ext = NoExtract
    /\ jpeg = NewJPEG
    /\ hist = NoHist
    /\ bit_buffer = <<>>
    /\ scan_bytes = <<>>
    /\ base \in BaseInputs
    /\ zigzag_block = ZigzagTable
    /\ linear = <<>>
    /\ pair = NoPair
    /\ message_to_embed = <<>>
    /\ binary_message = <<>>
    /\ LaterIdle

\* i.rearrange_using_zigzag() on the fresh IDCT i (build_matrix line 797)
RearrangeCall ==
    /\ pc = "idct"
    /\ zigzag_block' = rearrange_using_zigzag(base)
    /\ pc' = "rearranged"
    /\ UNCHANGED <<files, sessionVars, codecVars, writerVars, base, linear, pair, framingVars, laterVars>>

\* linear_dct = self._zigzag_to_linear(dct_block) (_encode_block line 194)
ZigzagToLinearCall ==
    /\ pc = "rearranged"
    /\ linear' = zigzag_to_linear(zigzag_block)
    /\ pc' = "linear"
    /\ UNCHANGED <<files, sessionVars, codecVars, writerVars, base, zigzag_block, pair, framingVars, laterVars>>

NextZigzag == RearrangeCall \/ ZigzagToLinearCall

SpecZigzag == InitZigzag /\ [][NextZigzag]_vars

----------------------------------------------------------------------------
(* One step of the embedding walk on its own: lines 1327-1351 on a          *)
(* quantized pair.                                                          *)

MaxCoeff == 6

MaxDelta == 8

\* the default of DCTDM.__init__(image_file, delta=10)
DefaultDelta == 10

InitPair ==
    /\ files = CoverFiles
    /\ tokens = {}
    /\ dctdm = [delta |-> 0, image_file |-> NoPath]
    /\ pc = "pair"
    /\ emb = NoEmbed
    /\ ext = NoExtract
    /\ jpeg = NewJPEG
    /\ hist = NoHist
    /\ bit_buffer = <<>>
    /\ scan_bytes = <<>>
    /\ base = ZeroBase
    /\ zigzag_block = ZigzagTable
    /\ linear = <<>>
    /\ \E ac1_quant \in -MaxCoeff..MaxCoeff, ac2_quant \in -MaxCoeff..MaxCoeff,
          delta \in (1..MaxDelta) \cup {DefaultDelta} :
          pair = [NoPair EXCEPT !.ac1_quant = ac1_quant, !.ac2_quant = ac2_quant,
                                !.delta = delta]
    /\ message_to_embed = <<>>
    /\ binary_message = <<>>
    /\ LaterIdle

\* the new pair new for the bits (bit1, bit2)
EmbedPairReturn(bit1, bit2, new) ==
    pair' = [pair EXCEPT !.bit1 = bit1, !.bit2 = bit2,
                         !.new_ac1_quant = new[1], !.new_ac2_quant = new[2]]

\* lines 1327-1351 for the bits (bit1, bit2) of binary_message
EmbedPairCall(bit1, bit2) ==
    /\ pc = "pair"
    /\ EmbedPairReturn(bit1, bit2,
                       EmbedPair(pair.ac1_quant, pair.ac2_quant, bit1, bit2, pair.delta))
    /\ pc' = "paired"
    /\ UNCHANGED <<files, sessionVars, codecVars, writerVars, zigzagVars, framingVars, laterVars>>

\* lines 1469-1491 of extract_message on the pair embed wrote
ExtractPairCall ==
    /\ pc = "paired"
    /\ pair' = [pair EXCEPT !.extracted_bits =
                    ExtractPair(pair.new_ac1_quant, pair.new_ac2_quant, pair.delta)]
    /\ pc' = "pair_read"
    /\ UNCHANGED <<files, sessionVars, codecVars, writerVars, zigzagVars, framingVars, laterVars>>

NextPair ==
    \/ \E bit1 \in 0..1, bit2 \in 0..1 : EmbedPairCall(bit1, bit2)
    \/ ExtractPairCall

SpecPair == InitPair /\ [][NextPair]_vars

----------------------------------------------------------------------------
(* The payload framing on its own: lines 1282-1284 on message_to_embed. *)

MaxFrameLen == 3

\* the code points tried: NUL, "A", U+00E9 and U+20AC (above 255)
FramingChars == {0, 65, 233, 8364}

FramingTexts ==
    UNION {[1..n -> FramingChars] : n \in 0..MaxFrameLen}

InitFraming ==
    /\ files = CoverFiles
    /\ tokens = {}
    /\ dctdm = [delta |-> 0, image_file |-> NoPath]
    /\ pc = "framing"
    /\ emb = NoEmbed
    /\ ext = NoExtract
    /\ jpeg = NewJPEG
    /\ hist = NoHist
    /\ bit_buffer = <<>>
    /\ scan_bytes = <<>>
    /\ base = ZeroBase
    /\ zigzag_block = ZigzagTable
    /\ linear = <<>>
    /\ pair = NoPair
    /\ message_to_embed \in FramingTexts
    /\ binary_message = <<>>
    /\ LaterIdle

\* lines 1282-1284: binary_message = format(msg_length, '016b') + the characters
FrameCall ==
    /\ pc = "framing"
    /\ binary_message' = BinaryMessage(message_to_embed)
    /\ pc' = "framed"
    /\ UNCHANGED <<files, sessionVars, codecVars, writerVars, zigzagVars, pair, message_to_embed, laterVars>>

NextFraming == FrameCall

SpecFraming == InitFraming /\ [][NextFraming]_vars

----------------------------------------------------------------------------
(* The signed-magnitude coding on its own: _encode_number (encoder), then   *)
(* decode_number (decoder) on its result.                                   *)

\* the variables the specifications below leave alone, and their values
otherVars == <<files, sessionVars, codecVars, writerVars, zigzagVars, pair, framingVars>>

OthersIdle ==
    /\ files = CoverFiles
    /\ tokens = {}
    /\ dctdm = [delta |-> 0, image_file |-> NoPath]
    /\ emb = NoEmbed
    /\ ext = NoExtract
    /\ jpeg = NewJPEG
    /\ hist = NoHist
    /\ bit_buffer = <<>>
    /\ scan_bytes = <<>>
    /\ base = ZeroBase
    /\ zigzag_block = ZigzagTable
    /\ linear = <<>>
    /\ pair = NoPair
    /\ message_to_embed = <<>>
    /\ binary_message = <<>>

\* the longest magnitude tried, in bits
MaxSize == 11

InitNumber ==
    /\ OthersIdle
    /\ pc = "number"
    /\ \E value \in -(Pow2(MaxSize) - 1)..(Pow2(MaxSize) - 1) :
          number = [value |-> value, size |-> 0, bits |-> 0, decoded |-> 0]
    /\ block_io = <<>>
    /\ prefix = <<>>
    /\ parser = <<>>

\* size, bits = self._encode_number(value), with e the pair returned
EncodeNumberReturn(e) ==
    number' = [number EXCEPT !.size = e[1], !.bits = e[2]]

EncodeNumberCall ==
    /\ pc = "number"
    /\ EncodeNumberReturn(encode_number(number.value))
    /\ pc' = "number_encoded"
    /\ UNCHANGED <<otherVars, block_io, prefix, parser>>

\* decode_number(code, bits) on that size and those bits
DecodeNumberCall ==
    /\ pc = "number_encoded"
    /\ number' = [number EXCEPT !.decoded = decode_number(number.size, number.bits)]
    /\ pc' = "number_decoded"
    /\ UNCHANGED <<otherVars, block_io, prefix, parser>>

NextNumber == EncodeNumberCall \/ DecodeNumberCall

SpecNumber == InitNumber /\ [][NextNumber]_vars

----------------------------------------------------------------------------
(* One block through the scan coder: _encode_block, _bits_to_bytes and the  *)
(* EOI marker on the writing side, remove_FF00 and build_matrix on the      *)
(* reading side.                                                            *)

\* scan positions that may hold a non-zero AC value, and the values
BlockCells == {1, 2, 17, 40, 63}

BlockValues == {-7, -1, 3, 9}

BlockDCs == {-5, 0, 2}

BlockPrevDCs == {-3, 0}

\* at most this many non-zero AC values in a block
MaxNonzero == 2

\* the blocks of 64 quantized values, by scan position
BlockInputs ==
    LET cellSets == {cs \in SUBSET BlockCells : Cardinality(cs) <= MaxNonzero}
    IN  UNION {{[i \in 0..63 |-> IF i = 0 THEN dc ELSE IF i \in cs THEN f[i] ELSE 0] :
                  f \in [cs -> BlockValues], dc \in BlockDCs} : cs \in cellSets}

\* the tables of a cover: luminance for idx 0, chrominance for idx 1
BlockTables == CoverStore("nonuniform", 1).huffman_tables

BlockQuant(idx) == CoverQuant("nonuniform")[idx]

\* the 8x8 block that holds the quantized values as the store holds them
BlockStore(quantized, idx) ==
    rearrange_using_zigzag([i \in 0..63 |-> quantized[i] * BlockQuant(idx)[i]])

NoBlockOut == [ok |-> FALSE, pos |-> 0, DCcoeff |-> 0, dct_block |-> <<>>]

InitBlock ==
    /\ OthersIdle
    /\ pc = "block"
    /\ number = <<>>
    /\ \E quantized \in BlockInputs, prev_dc \in BlockPrevDCs, idx \in {0, 1} :
          block_io = [quantized |-> quantized, prev_dc |-> prev_dc, idx |-> idx,
                      bits |-> <<>>, dc |-> 0, out |-> NoBlockOut]
    /\ prefix = <<>>
    /\ parser = <<>>

\* bit_buffer, dc = self._encode_block(...), with e what it returns
EncodeBlockReturn(e) ==
    block_io' = [block_io EXCEPT !.bits = e.bits, !.dc = e.dc]

EncodeBlockCall ==
    /\ pc = "block"
    /\ EncodeBlockReturn(encode_block(CodeTables(BlockTables),
                                      BlockStore(block_io.quantized, block_io.idx),
                                      BlockQuant(block_io.idx), block_io.idx,
                                      16 + block_io.idx, block_io.prev_dc))
    /\ pc' = "block_encoded"
    /\ UNCHANGED <<otherVars, number, prefix, parser>>

\* the scan bytes as written (stuffed, padded, EOI after them), de-stuffed
\* by remove_FF00 and read by build_matrix from bit 0
BuildMatrixReturn(m) ==
    block_io' = [block_io EXCEPT !.out = m]

BuildMatrixCall ==
    /\ pc = "block_encoded"
    /\ BuildMatrixReturn(build_matrix(BlockTables,
                                      remove_FF00(bits_to_bytes(block_io.bits) \o <<255, 217>>).datapro,
                                      0, block_io.idx, BlockQuant(block_io.idx),
                                      block_io.prev_dc))
    /\ pc' = "block_decoded"
    /\ UNCHANGED <<otherVars, number, prefix, parser>>

NextBlock == EncodeBlockCall \/ BuildMatrixCall

SpecBlock == InitBlock /\ [][NextBlock]_vars

----------------------------------------------------------------------------
(* The length prefix in extract_message: the stop test of the walk and the   *)
(* sanity check after it, on a store of a given number of pairs whose first  *)
(* 16 bits decode to msg_length.                                             *)

\* prefixes around the limits of the two tests
PrefixLengths == {0, 1, 2, 3, 9998, 9999, 10000, 10001, 65535}

MaxSlack == 3

\* stores some pairs short of, and some pairs beyond, the 8 + 4*L pairs of a
\* payload of L characters
PrefixInputs ==
    {[msg_length |-> L, pairs |-> 8 + 4 * L + d, nbits |-> 0, accepted |-> FALSE] :
        L \in PrefixLengths, d \in (-2)..MaxSlack}

\* lines 1450-1520 on lengths alone: len(extracted_bits) when the loops end,
\* two bits per pair, the test of lines 1499-1506 after every pair
WalkBits(msg_length, pairs) ==
    LET stops == {k \in 1..pairs : 2 * k >= 16 /\ WalkStops(msg_length, 2 * k)}
    IN  IF stops = {} THEN 2 * pairs
        ELSE 2 * (CHOOSE k \in stops : \A m \in stops : k <= m)

InitPrefix ==
    /\ OthersIdle
    /\ pc = "prefix"
    /\ prefix \in PrefixInputs
    /\ number = <<>>
    /\ block_io = <<>>
    /\ parser = <<>>

\* the pair walk of extract_message
WalkPrefix ==
    /\ pc = "prefix"
    /\ prefix' = [prefix EXCEPT !.nbits = WalkBits(prefix.msg_length, prefix.pairs)]
    /\ pc' = "prefix_walked"
    /\ UNCHANGED <<otherVars, number, block_io, parser>>

\* lines 1522-1535: the message is read unless a return "" is taken
CheckPrefix ==
    /\ pc = "prefix_walked"
    /\ prefix' = [prefix EXCEPT !.accepted = prefix.nbits >= 16
                                             /\ ~LengthRejected(prefix.msg_length)]
    /\ pc' = "prefix_checked"
    /\ UNCHANGED <<otherVars, number, block_io, parser>>

NextPrefix == WalkPrefix \/ CheckPrefix

SpecPrefix == InitPrefix /\ [][NextPrefix]_vars

----------------------------------------------------------------------------
(* The loops of the parser, one iteration per step: the marker loop of       *)
(* JPEG.decode, remove_FF00, HuffmanTable.get_code and the AC loop of        *)
(* build_matrix.  parser = [loop, data, root, s, steps]: the loop that runs, *)
(* the bytes it reads, the Huffman tree it uses, its state and the number of *)
(* iterations made.                                                          *)

\* byte strings of length 0..n over the bytes of set
RECURSIVE Strings(_, _)
Strings(set, n) ==
    IF n = 0 THEN {<<>>}
    ELSE LET shorter == Strings(set, n - 1)
         IN  shorter \cup {Append(x, b) : x \in {y \in shorter : Len(y) = n - 1}, b \in set}

MaxHeadLen == 4

ParserCuts == 8

\* the covers, cut at ParserCuts + 1 places (the last one is the whole file),
\* and short strings over bytes that markers and lengths are made of
DecodeInputs ==
    {Slice(CoverFiles[name], 0, (k * Len(CoverFiles[name])) \div ParserCuts) :
        name \in CoverNames, k \in 0..ParserCuts}
    \cup Strings({0, 2, 216, 217, 218, 255}, MaxHeadLen)

MaxStuffLen == 4

RemoveInputs == Strings({0, 1, 217, 255}, MaxStuffLen)

\* the bytes of one encoded block, cut at every length
MatrixInputs ==
    LET blocks == {q \in BlockInputs : q[0] = 2 /\ q[2] = 0 /\ q[40] = 0}
        bytes(q) == bits_to_bytes(encode_block(CodeTables(BlockTables), BlockStore(q, 0),
                                               BlockQuant(0), 0, 16, 0).bits)
    IN  UNION {{Slice(bytes(q), 0, n) : n \in 0..Len(bytes(q))} : q \in blocks}

\* build_matrix up to the AC loop (lines 771-776): the state the loop starts
\* in, done when get_code or GetBitN raised before it
MatrixStart(data) ==
    LET c == find(BlockTables[0], data, 0)
        b == IF c.ok THEN GetBitN(data, c.pos, c.value, 0) ELSE [ok |-> FALSE, value |-> 0, pos |-> 0]
    IN  [ok |-> b.ok, done |-> ~b.ok, pos |-> b.pos, length |-> 1,
         base |-> [ZeroBase EXCEPT ![0] = decode_number(c.value, b.value) * BlockQuant(0)[0]]]

MaxCodeLen == 2

GetCodeInputs == Strings({0, 101, 170, 254, 255}, MaxCodeLen)

\* trees get_code descends: the four tables of a cover and an empty table
GetCodeRoots == {BlockTables[id] : id \in {0, 1, 16, 17}} \cup {EmptyRoot}

ParserInputs ==
    {[loop |-> "decode", data |-> d, root |-> EmptyRoot, steps |-> 0,
      s |-> [jpeg |-> NewJPEG, off |-> 0, done |-> FALSE]] : d \in DecodeInputs}
    \cup {[loop |-> "remove_FF00", data |-> d, root |-> EmptyRoot, steps |-> 0,
           s |-> [ok |-> TRUE, done |-> FALSE, datapro |-> <<>>, i |-> 0]] : d \in RemoveInputs}
    \cup {[loop |-> "build_matrix", data |-> d, root |-> BlockTables[16], steps |-> 0,
           s |-> MatrixStart(d)] : d \in MatrixInputs}
    \cup {[loop |-> "get_code", data |-> d, root |-> r, steps |-> 0,
           s |-> [ok |-> TRUE, done |-> FALSE, pos |-> 0, res |-> -1]] :
              d \in GetCodeInputs, r \in GetCodeRoots}

InitParser ==
    /\ OthersIdle
    /\ pc = "parser"
    /\ number = <<>>
    /\ block_io = <<>>
    /\ prefix = <<>>
    /\ parser \in ParserInputs

\* the loop goes on from the state s its iteration left
ParserStep(s) == parser' = [parser EXCEPT !.s = s, !.steps = @ + 1]

\* one iteration of the while loop of JPEG.decode
DecodeIteration ==
    /\ pc = "parser"
    /\ parser.loop = "decode"
    /\ ~parser.s.done
    /\ ParserStep(DecodeStep(parser.s, parser.data))
    /\ UNCHANGED <<pc, otherVars, number, block_io, prefix>>

\* one iteration of the while loop of remove_FF00
RemoveIteration ==
    /\ pc = "parser"
    /\ parser.loop = "remove_FF00"
    /\ ~parser.s.done
    /\ ParserStep(RemoveStep(parser.data, parser.s))
    /\ UNCHANGED <<pc, otherVars, number, block_io, prefix>>

\* one iteration of the AC loop of build_matrix
MatrixIteration ==
    /\ pc = "parser"
    /\ parser.loop = "build_matrix"
    /\ ~parser.s.done
    /\ ParserStep(ACStep(parser.root, parser.data, BlockQuant(0), parser.s))
    /\ UNCHANGED <<pc, otherVars, number, block_io, prefix>>

\* one iteration of the while loop of get_code
GetCodeIteration ==
    /\ pc = "parser"
    /\ parser.loop = "get_code"
    /\ ~parser.s.done
    /\ ParserStep(GetCodeStep(parser.s, find(parser.root, parser.data, parser.s.pos)))
    /\ UNCHANGED <<pc, otherVars, number, block_io, prefix>>

NextParser == DecodeIteration \/ RemoveIteration \/ MatrixIteration \/ GetCodeIteration

SpecParser == InitParser /\ [][NextParser]_vars

\* the marker loop can make an iteration
DecodeRuns == pc = "parser" /\ parser.loop = "decode" /\ ~parser.s.done

\* WF_vars(DecodeIteration) written out as "infinitely often not enabled, or
\* infinitely often taken": DecodeIteration is enabled exactly when
\* DecodeRuns holds, and its steps are the steps that count an iteration.
\* In this form the handlers of a whole file are evaluated once per step and
\* not again for ENABLED.
DecodeFair == []<>(~DecodeRuns) \/ []<><<parser'.steps = parser.steps + 1>>_vars

\* a loop that can make an iteration makes it: the interpreter runs the
\* loop body until the loop returns or raises
FairSpecParser ==
    /\ SpecParser
    /\ DecodeFair
    /\ WF_vars(RemoveIteration)
    /\ WF_vars(MatrixIteration)
    /\ WF_vars(GetCodeIteration)

----------------------------------------------------------------------------
(* Properties of the session (Spec) *)

\* an embed_message call that returned, followed by an extract_message call
\* on the file it wrote
RoundTrip ==
    /\ pc = "extracted"
    /\ emb.done
    /\ emb.ok
    /\ ext.done
    /\ ext.stego_file = emb.output_path

\* C1: embed_message followed by extract_message with the same delta and the
\* same password (or none) returns exactly the message, for every accepted
\* cover, every message within capacity and every integer delta >= 1.
C1_RoundTrip ==
    (RoundTrip /\ ext.password = emb.password /\ dctdm.delta >= 1
     /\ emb.bits <= 2 * emb.pairs)
    => (ext.ok /\ ext.text = emb.secret_message)

\* C3: when the cover has fewer pairs than the framed payload needs (2 bits
\* per pair), embed_message fails and writes no stego file.
C3_CapacityExceeded ==
    (emb.done /\ dctdm.delta >= 1 /\ emb.bits > 2 * emb.pairs)
    => (~emb.ok /\ emb.output_path \notin DOMAIN files)

\* C4 (as amended): one Y block offers exactly 28 pairs (56 payload bits): an
\* embed_message call into a single-MCU cover embeds min(bits, 56) bits, so
\* a 4-character message without password (48 bits) is embedded whole.
C4_BlockCapacity28 ==
    (emb.done /\ emb.ok /\ emb.mcus = 1)
    => /\ emb.bit_index = Min(emb.bits, 56)
       /\ (Len(emb.secret_message) = 4 /\ ~Truthy(emb.password) => emb.bit_index = 48)

\* a payload longer than the block met the end of a single-MCU cover
C4_Witness ==
    /\ emb.done
    /\ emb.ok
    /\ emb.mcus = 1
    /\ emb.bits = 64
    /\ emb.bit_index = 56

\* C4 as stated: one Y block offers exactly 21 pairs (42 payload bits), and
\* embedding a 4-character message into a single-MCU cover is rejected.
C4_BlockCapacity21 ==
    (emb.done /\ emb.mcus = 1 /\ dctdm.delta >= 1)
    => /\ emb.bit_index <= 42
       /\ (Len(emb.secret_message) >= 4 /\ ~Truthy(emb.password) => ~emb.ok)

\* C5: when the sidecar marks the payload as encrypted and extract_message is
\* called without a password, the call raises; it returns no string.
C5_PasswordRequired ==
    (ext.done /\ ext.is_encrypted /\ ext.password = None) => ~ext.ok

\* C6: when the sidecar marks the payload as encrypted and extract_message is
\* given a password other than the one used at embed, the call raises; it
\* returns no string.
C6_DecryptionFailed ==
    (RoundTrip /\ ext.is_encrypted /\ Truthy(emb.password) /\ Truthy(ext.password)
     /\ ext.password # emb.password)
    => ~ext.ok

\* C7: extract_message raises whenever the 16-bit length prefix it decoded is
\* 0 or greater than 10,000.
C7_InvalidPayloadLength ==
    (ext.done /\ ext.nbits >= 16 /\ (ext.msg_length = 0 \/ ext.msg_length > 10000))
    => ~ext.ok

\* C8: when the store holds fewer than 16 + 8*L bits for the decoded length
\* prefix L, extract_message raises; it returns no shortened message.
C8_Truncated ==
    (ext.done /\ ext.msg_length \in 1..10000 /\ ext.nbits < 16 + 8 * ext.msg_length)
    => ~ext.ok

\* C13: after every embed_message call that returned, the sidecar's
\* 'encrypted' flag is true exactly when the payload embedded is the message
\* encrypted with the password ("if password:" held), and false exactly when
\* the plaintext was embedded; for every password, the empty string included.
C13_SidecarFlag ==
    (emb.done /\ emb.ok /\ ReplaceJpgMeta(emb.output_path) \in DOMAIN files)
    => /\ PickleLoad(files[ReplaceJpgMeta(emb.output_path)]).ok
       /\ PickleLoad(files[ReplaceJpgMeta(emb.output_path)]).encrypted
          <=> Truthy(emb.password)

\* C14: for every output file name, embed_message writes the sidecar to a
\* path other than the stego JPEG's, so after the call the stego path still
\* holds the bytes the encoder wrote there.
C14_SidecarLocation ==
    (emb.done /\ emb.ok)
    => /\ ReplaceJpgMeta(emb.output_path) # emb.output_path
       /\ files[emb.output_path] = emb.stego

\* C20: constructing DCTDM fails for every delta that is not greater than 0,
\* so no DCTDM object exists, and neither embed_message nor extract_message
\* runs, with delta = 0 or a negative delta.
C20_StepValidation ==
    (pc = "ready" \/ emb.done \/ ext.done) => dctdm.delta > 0

\* the position in the canonical order (blocks in raster order, rows 1..7,
\* column pairs starting at 0, 2, 4, 6; 28 pairs per block) of the pair that
\* holds cell (row, col) of block b, counted from 0
CanonicalPair(b, row, col) == (b - 1) * 28 + (row - 1) * 4 + (col \div 2)

\* the cells of the Y blocks that embed_message changed
ChangedCells ==
    {c \in (1..Len(emb.decoded.dct_blocks)) \X (0..7) \X (0..7) :
        emb.walked.dct_blocks[c[1]].Y[c[2]][c[3]] # emb.decoded.dct_blocks[c[1]].Y[c[2]][c[3]]}

\* C27: embed_message changes only cells of Y blocks in rows 1..7 that belong
\* to the first (16 + 8*L)/2 pairs of the canonical order; row 0 of every Y
\* block, every Cb and Cr block, every pair after the last payload bit, and
\* the quantization and Huffman tables are left unchanged.
C27_EmbedFrame ==
    (emb.done /\ emb.ok)
    => /\ Len(emb.walked.dct_blocks) = Len(emb.decoded.dct_blocks)
       /\ \A c \in ChangedCells :
             /\ c[2] \in 1..7
             /\ CanonicalPair(c[1], c[2], c[3]) < emb.bits \div 2
       /\ \A b \in 1..Len(emb.decoded.dct_blocks) :
             /\ emb.walked.dct_blocks[b].Cb = emb.decoded.dct_blocks[b].Cb
             /\ emb.walked.dct_blocks[b].Cr = emb.decoded.dct_blocks[b].Cr
       /\ emb.walked.quant = emb.decoded.quant
       /\ emb.walked.huffman_tables = emb.decoded.huffman_tables
       /\ emb.walked.quant_mapping = emb.decoded.quant_mapping

\* an embed_message call that changed a cell of the last payload pair and
\* left pairs after it, in a cover of more than one block
C27_Witness ==
    /\ emb.done
    /\ emb.ok
    /\ emb.mcus > 1
    /\ emb.bits < 2 * emb.pairs
    /\ \E c \in ChangedCells : CanonicalPair(c[1], c[2], c[3]) = emb.bits \div 2 - 1

\* the store extract_message decoded
ExtractStore == JPEGdecode(files[ext.stego_file])

\* the two bits of the pair at position k (from 0) of the canonical order
CanonicalBits(store, k) ==
    LET q == QuantPair(store.dct_blocks[(k \div 28) + 1].Y, store.quant[store.quant_mapping[1]],
                       1 + ((k % 28) \div 4), 2 * (k % 4))
    IN  ExtractPair(q[1], q[2], dctdm.delta)

\* the bits of the first n pairs of the canonical order
CanonicalPrefix(store, n) == Concat([k \in 1..n |-> CanonicalBits(store, k - 1)])

\* C28: extract_message visits the pairs in the order of embed_message
\* (blocks in raster order, rows 1..7, columns 0, 2, 4, 6), and for a store
\* whose first 16 bits decode to L with 0 < L < 10000 and that has at least
\* (16 + 8*L)/2 pairs, it stops after reading exactly (16 + 8*L)/2 pairs: the
\* prefix and the characters it returns are those of the first 8 + 4*L pairs.
C28_ExtractWalk ==
    (ext.done /\ ext.ok /\ ext.msg_length > 0 /\ ext.msg_length < 10000
     /\ 16 + 8 * ext.msg_length <= 2 * 28 * Len(ExtractStore.dct_blocks))
    => LET bits == CanonicalPrefix(ExtractStore, 8 + 4 * ext.msg_length)
       IN  /\ ext.nbits = 16 + 8 * ext.msg_length
           /\ ext.msg_length = BitsToInt(SubSeq(bits, 1, 16))
           /\ ~ext.is_encrypted => ext.text = BitsToText(SubSeq(bits, 17, Len(bits)))
           /\ (RoundTrip /\ emb.bits = 16 + 8 * ext.msg_length) => ext.nbits = emb.bits

\* an extract_message call that stopped before the last pair of the store,
\* in the second block, and returned the characters it read
C28_Witness ==
    /\ ext.done
    /\ ext.ok
    /\ ext.msg_length = 6
    /\ ext.nbits = 64
    /\ ~ext.is_encrypted
    /\ Len(ext.text) = 6
    /\ Len(ExtractStore.dct_blocks) > 1

----------------------------------------------------------------------------
(* Properties of the codec (SpecCodec) *)

\* C2: for a baseline JPEG that JPEG.decode accepts, encoding the unmodified
\* store and decoding the result gives a store equal to the first in every
\* cell of every Y, Cb and Cr block of every MCU.
C2_DecodeEncodeIdentity ==
    (pc = "redecoded" /\ hist.first.ok)
    => (jpeg.ok /\ jpeg.dct_blocks = hist.first.dct_blocks)

\* C15: when JPEG.decode meets a marker in 0xFFC1..0xFFCF other than DHT
\* (SOF2 of a progressive file, DAC 0xFFCC), decode fails: it does not return
\* normally, and no block of a scan is decoded.
C15_UnsupportedFrame ==
    (pc = "decoded" /\ hist.source \in {CodecName("progressive"), CodecName("dac")})
    => (~jpeg.ok /\ jpeg.dct_blocks = <<>>)

\* C16: when SOF0 gives a component a sampling byte other than 0x11, decode
\* rejects the image and decodes no scan.
C16_SamplingEnforced ==
    (pc = "decoded" /\ hist.source = CodecName("subsampled"))
    => (~jpeg.ok /\ jpeg.dct_blocks = <<>>)

\* C26: after the parser has handled a DHT segment that defines several
\* Huffman tables and a DQT segment that defines several quantization
\* tables, all of them are in the store under their keys, not only the
\* first of each segment.
C26_MultiTableSegments ==
    (pc = "decoded" /\ hist.source = CodecName("merged"))
    => /\ {0, 1, 16, 17} \subseteq DOMAIN jpeg.huffman_tables
       /\ {0, 1} \subseteq DOMAIN jpeg.quant

\* the quantized coefficient the scan encoder writes for cell (row, col) of
\* the Y block of MCU b of the decoded store
WrittenY(b, row, col) ==
    Quantize(zigzag_to_linear(jpeg.dct_blocks[b].Y),
             jpeg.quant[jpeg.quant_mapping[1]])[zigzag_order[row * 8 + col]]

\* C17: after decode every Y-block cell [row][col] holds q * Q[row*8+col], q
\* being the quantized coefficient the entropy codec carries for the cell and
\* Q the luminance table; so the q that embed and extract recover there,
\* round(cell / Q[row*8+col]), is the q the encoder writes, for every table.
C17_StorageInvariant ==
    (pc = "decoded" /\ jpeg.ok /\ CanEncode(jpeg))
    => \A b \in 1..Len(jpeg.dct_blocks) : \A row \in 0..7, col \in 0..7 :
          /\ jpeg.dct_blocks[b].Y[row][col]
             = WrittenY(b, row, col) * jpeg.quant[jpeg.quant_mapping[1]][row * 8 + col]
          /\ PyRound(jpeg.dct_blocks[b].Y[row][col],
                     jpeg.quant[jpeg.quant_mapping[1]][row * 8 + col])
             = WrittenY(b, row, col)

\* the segments of the file data from 0-based offset off up to and including
\* the SOS header, as read by their markers and length fields: marker, offset
\* and the byte after the length field (the table id of a DQT or DHT)
RECURSIVE SegmentsFrom(_, _)
SegmentsFrom(data, off) ==
    IF off + 2 > Len(data) THEN <<>>
    ELSE IF Unpack16(data, off) = 65496
    THEN <<[marker |-> 65496, off |-> off, id |-> -1, next |-> off + 2]>>
         \o SegmentsFrom(data, off + 2)
    ELSE IF off + 5 > Len(data) THEN <<[marker |-> -1, off |-> off, id |-> -1, next |-> off]>>
    ELSE IF Unpack16(data, off) = 65498
    THEN <<[marker |-> 65498, off |-> off, id |-> data[off + 5],
            next |-> off + 2 + Unpack16(data, off + 2)]>>
    ELSE <<[marker |-> Unpack16(data, off), off |-> off, id |-> data[off + 5],
            next |-> off + 2 + Unpack16(data, off + 2)]>>
         \o SegmentsFrom(data, off + 2 + Unpack16(data, off + 2))

\* the file the encoder wrote, once it has
WrittenFile == IF hist.output \in DOMAIN files THEN files[hist.output] ELSE <<>>

\* the markers of its segments, and the table ids of those with marker m
WrittenMarkers == [i \in DOMAIN SegmentsFrom(WrittenFile, 0) |-> SegmentsFrom(WrittenFile, 0)[i].marker]

WrittenIds(m) ==
    [i \in DOMAIN SelectSeq(SegmentsFrom(WrittenFile, 0), LAMBDA g : g.marker = m) |->
        SelectSeq(SegmentsFrom(WrittenFile, 0), LAMBDA g : g.marker = m)[i].id]

\* where the scan bytes begin: after the SOS header, the last segment read
WrittenScanStart == SegmentsFrom(WrittenFile, 0)[Len(SegmentsFrom(WrittenFile, 0))].next

\* C19: the file JPEGEncoder.encode writes is, in this order: SOI, APP0, one
\* DQT per quantization table, SOF0 with three 1x1 components, the DHTs of
\* DC0, AC0, DC1, AC1, SOS, the scan bytes (holding no marker), EOI, and
\* nothing after EOI.
C19_WriterOrder ==
    pc = "encoded"
    => /\ WrittenMarkers
          = <<65496, 65504>> \o [i \in 1..Cardinality(DOMAIN jpeg.quant) |-> 65499]
            \o <<65472, 65476, 65476, 65476, 65476, 65498>>
       /\ WrittenIds(65499) = SortedKeys(DOMAIN jpeg.quant)
       /\ WrittenIds(65476) = <<0, 16, 1, 17>>
       /\ \E g \in {SegmentsFrom(WrittenFile, 0)[i] : i \in DOMAIN SegmentsFrom(WrittenFile, 0)} :
             /\ g.marker = 65472
             /\ WrittenFile[g.off + 10] = 3
             /\ \A c \in 0..2 : WrittenFile[g.off + 12 + 3 * c] = 17
       /\ WrittenScanStart + 2 <= Len(WrittenFile)
       /\ WrittenFile[Len(WrittenFile) - 1] = 255
       /\ WrittenFile[Len(WrittenFile)] = 217
       /\ \A i \in (WrittenScanStart + 1)..(Len(WrittenFile) - 2) :
             WrittenFile[i] = 255 => (i < Len(WrittenFile) - 2 /\ WrittenFile[i + 1] = 0)

\* a file was written whose four DHT segments carry the ids 0x00, 0x10, 0x01,
\* 0x11 in that order and whose scan holds at least one byte
C19_Witness ==
    /\ pc = "encoded"
    /\ WrittenIds(65476) = <<0, 16, 1, 17>>
    /\ WrittenScanStart + 2 < Len(WrittenFile)

\* the tree rebuilt from the BITS and symbols the encoder derives from tree
Rebuilt(tree) ==
    get_huffman_bits(extract_huffman_data(tree).lengths, extract_huffman_data(tree).symbols)

\* C10: for every Huffman table the decoder built from a DHT segment, the
\* BITS and symbol list of _extract_huffman_data rebuild the same tree
\* through get_huffman_bits, so each symbol keeps the code of the scan encoder.
C10_HuffmanRebuild ==
    (pc = "decoded" /\ jpeg.ok)
    => \A id \in DOMAIN jpeg.huffman_tables :
          /\ Rebuilt(jpeg.huffman_tables[id]).ok
          /\ Rebuilt(jpeg.huffman_tables[id]).root = jpeg.huffman_tables[id]
          /\ build_huffman_code_table(Rebuilt(jpeg.huffman_tables[id]).root)
             = build_huffman_code_table(jpeg.huffman_tables[id])

----------------------------------------------------------------------------
(* Properties of the bit writer (SpecBits) *)

\* C9: for every bit sequence given to _bits_to_bytes, every 0xFF byte of the
\* bytes produced, a 0xFF made by the final padding included, is immediately
\* followed by 0x00.
C9_BitStuffing ==
    pc = "written"
    => \A i \in 1..Len(scan_bytes) :
          scan_bytes[i] = 255 => (i < Len(scan_bytes) /\ scan_bytes[i + 1] = 0)

\* a buffer that is not a whole number of bytes whose padded last byte is 0xFF
C9_Witness ==
    /\ pc = "written"
    /\ Len(bit_buffer) % 8 # 0
    /\ Len(scan_bytes) >= 2
    /\ scan_bytes[Len(scan_bytes) - 1] = 255
    /\ scan_bytes[Len(scan_bytes)] = 0

----------------------------------------------------------------------------
(* Properties of the zigzag reordering (SpecZigzag) *)

\* C11: the decoder's zigzag table and the encoder's zigzag_order are the
\* same permutation of 0..63, and for every 64-entry array base the list
\* _zigzag_to_linear makes of rearrange_using_zigzag(base) equals base.
C11_ZigzagInverse ==
    /\ \A i \in 0..63 : zigzag[i] = zigzag_order[i]
    /\ {zigzag[i] : i \in 0..63} = 0..63
    /\ (pc = "linear" => linear = base)

\* a base whose only nonzero entry sits at scan position 2 (natural cell
\* (1, 0)) has gone through both reorderings
C11_Witness ==
    /\ pc = "linear"
    /\ base[2] = 7
    /\ zigzag_block[1][0] = 7
    /\ linear[2] = 7

----------------------------------------------------------------------------
(* Properties of the pair update (SpecPair) *)

\* C12: for every pair of integer quantized coefficients, every two payload
\* bits and every delta >= 1, the mean of the pair embed writes differs from
\* the mean of the pair it read by at most 1 (twice the means: by at most 2).
C12_PairMean ==
    pc = "paired"
    => Abs((pair.new_ac1_quant + pair.new_ac2_quant) - (pair.ac1_quant + pair.ac2_quant)) <= 2

\* a pair whose mean the update moved (by one half)
C12_Witness ==
    /\ pc = "paired"
    /\ pair.delta >= 1
    /\ pair.new_ac1_quant + pair.new_ac2_quant # pair.ac1_quant + pair.ac2_quant

\* C21: with delta = 10, for every pair of integer quantized coefficients and
\* every two bits, the decision rule of extract applied to the pair embed
\* wrote for those bits returns those bits.
C21_PairInverse ==
    (pc = "pair_read" /\ pair.delta = DefaultDelta)
    => pair.extracted_bits = <<pair.bit1, pair.bit2>>

\* a pair whose difference lies beyond the first bin (|D| >= delta) was given
\* the bits 1 0 and read back
C21_Witness ==
    /\ pc = "pair_read"
    /\ pair.delta = DefaultDelta
    /\ Abs(pair.ac1_quant - pair.ac2_quant) >= DefaultDelta
    /\ pair.bit1 = 1
    /\ pair.bit2 = 0
    /\ pair.extracted_bits = <<1, 0>>

\* num / den (den > 0) rounded to the nearest integer, exact halves away
\* from zero
RoundHalfAway(num, den) ==
    IF num >= 0 THEN (2 * num + den) \div (2 * den)
    ELSE -((2 * (-num) + den) \div (2 * den))

\* new_diff of lines 1335-1346 for the pair and bits of the state, in quarters
PairNewDiff ==
    LET k == Abs(pair.ac1_quant - pair.ac2_quant) \div pair.delta
    IN  IF pair.bit1 = 0 /\ pair.bit2 = 0 THEN 4 * k * pair.delta + pair.delta
        ELSE IF pair.bit1 = 0 /\ pair.bit2 = 1 THEN 4 * k * pair.delta + 3 * pair.delta
        ELSE IF pair.bit1 = 1 /\ pair.bit2 = 0 THEN -(4 * k * pair.delta + 3 * pair.delta)
        ELSE -(4 * k * pair.delta + pair.delta)

\* C22: the roundings of embed, q1' = round(mu + D'/2) and q2' = round(mu -
\* D'/2), round exact halves away from zero, never to the even neighbour.
C22_RoundHalfAway ==
    pc = "paired"
    => /\ pair.new_ac1_quant
          = RoundHalfAway(4 * (pair.ac1_quant + pair.ac2_quant) + PairNewDiff, 8)
       /\ pair.new_ac2_quant
          = RoundHalfAway(4 * (pair.ac1_quant + pair.ac2_quant) - PairNewDiff, 8)

----------------------------------------------------------------------------
(* Properties of the payload framing (SpecFraming) *)

\* C18: for every text M that embed_message frames, the bitstream has exactly
\* 16 + 8*len(M) bits: the 16-bit big-endian value len(M), then for each
\* character exactly 8 bits holding the low byte of its code point.
C18_PayloadFraming ==
    pc = "framed"
    => /\ Len(binary_message) = 16 + 8 * Len(message_to_embed)
       /\ BitsToInt(SubSeq(binary_message, 1, 16)) = Len(message_to_embed)
       /\ \A i \in 1..Len(message_to_embed) :
             BitsToInt(SubSeq(binary_message, 16 + 8 * (i - 1) + 1, 16 + 8 * i))
             = message_to_embed[i] % 256

----------------------------------------------------------------------------
(* Properties of the signed-magnitude coding (SpecNumber) *)

\* C23: for every non-zero integer v whose magnitude has bit length s in
\* 1..11, _encode_number(v) is (s, bits) with 0 <= bits < 2^s and
\* decode_number(s, bits) is v; _encode_number(0) is (0, 0) and
\* decode_number(0, 0) is 0.
C23_NumberInverse ==
    pc = "number_decoded"
    => /\ number.decoded = number.value
       /\ number.size = BitLength(Abs(number.value))
       /\ number.bits >= 0
       /\ number.bits < Pow2(number.size)
       /\ (number.value = 0 => (number.size = 0 /\ number.bits = 0))

\* a negative value of the full 11 bits was encoded and decoded
C23_Witness ==
    /\ pc = "number_decoded"
    /\ number.value = -1024
    /\ number.size = 11
    /\ number.bits = 1023
    /\ number.decoded = -1024

----------------------------------------------------------------------------
(* Properties of the block coder (SpecBlock) *)

\* the run/size symbols, ZRL and EOB that the AC part of a block needs: a
\* symbol per non-zero position n for the zeros since the non-zero position
\* before it, ZRL when such a run has 16 zeros or more, EOB when the last
\* position is zero
NeededAC(quantized) ==
    LET nz == {i \in 1..63 : quantized[i] # 0}
        Before(n) == {j \in nz : j < n} \cup {0}
        Run(n) == n - 1 - (CHOOSE j \in Before(n) : \A m \in Before(n) : m <= j)
    IN  {(Run(n) % 16) * 16 + BitLength(Abs(quantized[n])) : n \in nz}
        \cup (IF \E n \in nz : Run(n) >= 16 THEN {240} ELSE {})
        \cup (IF 63 \in nz THEN {} ELSE {0})

\* every symbol the block needs has a code in the tables it is coded with
BlockHasCodes ==
    /\ BitLength(Abs(block_io.quantized[0] - block_io.prev_dc))
          \in DOMAIN CodeTables(BlockTables)[block_io.idx]
    /\ NeededAC(block_io.quantized) \subseteq DOMAIN CodeTables(BlockTables)[16 + block_io.idx]

\* C24: when every needed DC size and AC run/size symbol, ZRL and EOB has a
\* code, build_matrix on the bits that _encode_block emitted recovers the
\* same 64 values and the same DC predictor and consumes exactly the
\* emitted bits.
C24_BlockInverse ==
    (pc = "block_decoded" /\ BlockHasCodes)
    => /\ block_io.out.ok
       /\ block_io.out.dct_block = BlockStore(block_io.quantized, block_io.idx)
       /\ block_io.out.DCcoeff = block_io.quantized[0]
       /\ block_io.out.DCcoeff = block_io.dc
       /\ block_io.out.pos = Len(block_io.bits)

\* a block with a zero run of 16 before its first AC value and a value at
\* position 63 went through
C24_Witness ==
    /\ pc = "block_decoded"
    /\ BlockHasCodes
    /\ block_io.quantized[17] = -7
    /\ block_io.quantized[63] = 3
    /\ block_io.quantized[0] = 2
    /\ block_io.prev_dc = -3
    /\ block_io.out.ok
    /\ block_io.out.pos = Len(block_io.bits)

\* C25: when a block needs a DC size, an AC run/size symbol, ZRL or EOB that
\* has no code in the table, the encoder does not return normally; bits it
\* returns always decode to the block it was given.
C25_NoSilentLoss ==
    /\ pc \in {"block_encoded", "block_decoded"} => BlockHasCodes
    /\ pc = "block_decoded"
       => /\ block_io.out.ok
          /\ block_io.out.dct_block = BlockStore(block_io.quantized, block_io.idx)
          /\ block_io.out.DCcoeff = block_io.quantized[0]

----------------------------------------------------------------------------
(* Properties of the length prefix (SpecPrefix) *)

\* C29: for every 16-bit length prefix L, the test that lets the pair walk
\* stop and the sanity check after the walk classify L the same way: every L
\* that the final check accepts (L = 10000 included) stops the walk at
\* exactly 16 + 8*L bits when the store has that many.
C29_ConsistentBound ==
    (pc = "prefix_checked" /\ prefix.accepted
     /\ 2 * prefix.pairs >= 16 + 8 * prefix.msg_length)
    => prefix.nbits = 16 + 8 * prefix.msg_length

----------------------------------------------------------------------------
(* Properties of the parser loops (FairSpecParser) *)

\* what is left for the loop to read: bytes of the file, bytes of the
\* segment, coefficients of the block, bits of the stream
Remaining(p) ==
    IF p.loop = "decode" THEN Len(p.data) - p.s.off
    ELSE IF p.loop = "remove_FF00" THEN Len(p.data) - p.s.i
    ELSE IF p.loop = "build_matrix" THEN 64 - p.s.length
    ELSE 8 * Len(p.data) - p.s.pos

\* an iteration after which the loop goes on had something left to read and
\* leaves less: at least 2 bytes less in the marker loop
Consumes ==
    (pc = "parser" /\ ~parser'.s.done)
    => /\ Remaining(parser) > 0
       /\ Remaining(parser') < Remaining(parser)
       /\ parser.loop = "decode" => Remaining(parser') <= Remaining(parser) - 2

\* the loop has returned or raised, and what the marker loop and remove_FF00
\* leave is what JPEG.decode and remove_FF00 give as a whole
ParserDone ==
    /\ parser.s.done
    /\ parser.loop = "decode" => parser.s.jpeg = JPEGdecode(parser.data)
    /\ parser.loop = "remove_FF00"
       => LET r == remove_FF00(parser.data)
          IN  /\ parser.s.ok = r.ok
              /\ r.ok => parser.s.datapro = r.datapro /\ parser.s.i = r.i
    /\ parser.loop = "get_code" => parser.steps = 1

\* C30: for every finite input byte string JPEG.decode terminates, by
\* returning or by raising; every iteration of the marker loop consumes at
\* least 2 bytes, and the loops of remove_FF00, HuffmanTable.get_code and
\* build_matrix cannot run forever.
C30_ParserTermination == [][Consumes]_vars /\ <>ParserDone

\* the marker loop returned at EOI after nine iterations on a whole cover
C30_Witness ==
    /\ pc = "parser"
    /\ parser.loop = "decode"
    /\ parser.s.done
    /\ parser.s.jpeg.ok
    /\ Len(parser.s.jpeg.dct_blocks) = 2
    /\ parser.steps >= 8

====
